---- MODULE Spec2Model ----
(***************************************************************************)
(* VNTimeTracker: the durable time store (utils/data_storage.py) and the   *)
(* tracking state machine (core/tracker.py) as state machines.             *)
(*                                                                         *)
(* Time is the wall clock in whole seconds (now); a calendar date is a day *)
(* index (today).  A ledger is the dict-of-dicts TimeDataManager._data:    *)
(* a function whose domain is the set of titles present, each mapped to a  *)
(* function from the dates present to seconds.  A file on disk is absent,  *)
(* unparseable ("corrupt": truncated or damaged bytes) or holds the JSON   *)
(* of a ledger.                                                            *)
(***************************************************************************)
EXTENDS Integers, FiniteSets, Sequences, TLC

\* ------------------------------------------------------------------ bounds
MaxOps == 3         \* store calls issued in one run of SpecStore
MaxKills == 1       \* unclean process kills in one run
MaxUiOps == 3       \* UI calls on the tracker in one run
Horizon == 26       \* seconds a run lasts, outside the scenario
ScenarioEnd == 75   \* the last second of the scenario of the specification
MaxAdvance == 3     \* seconds the clock moves in one run of Spec
StartDelay == 11    \* seconds between construction and the first target in Spec
MaxClock == 11      \* seconds of wall-clock time in SpecSave

\* ------------------------------------------------------------ value spaces
None == "None"       \* Python's None where a string is expected
NoThread == "none"   \* the lock is free
NoDate == -1         \* add_time called without a date
Titles == {"A", "B"}
Dates == {0, 1}
SecondsArgs == {0, 1, 2}    \* the seconds passed to add_time in SpecStore
\* the threads that reach the store: the tracking loop (VN-Tracker), the
\* autosave loop (VN-AutoSave) and the UI thread
Threads == {"track", "autosave", "ui"}

EmptyLedger == [t \in {} |-> [d \in {} |-> 0]]
EmptyDay == [d \in {} |-> 0]

VARIABLES
    \* TimeDataManager
    data,               \* _data
    pending_changes,    \* _pending_changes
    store_lock,         \* _lock: NoThread or the thread holding it
    log_file,           \* the primary file
    backup_file,        \* log_file + ".backup"
    temp_file,          \* log_file + ".tmp"
    \* the wall clock and the calendar
    now, today,
    \* threads inside the store (SpecStore): where each is, and its frame
    pc, frame,
    \* TimeTracker
    selected_vn_title, selected_process, last_start, afk_threshold,
    current_state, last_save_time, running,
    \* the tracking loop: where it is, and the locals of the running iteration
    track_pc, active_process, idle_time, is_process_active, current_seconds,
    autosave_wake,      \* when the autosave loop's wait ends
    phase,              \* "ctor" while TimeDataManager.__init__ has not loaded yet
    load_raised,        \* whether load() let an exception escape
    \* history variables of the properties
    expected,           \* the ledger as the add_time calls that took the lock define it
    contended,          \* some call took the lock while another was waiting for it
    save_pre,           \* what load() would have returned when the running save began
    crash_rec,          \* the last kill: where it hit and what load() returned after it
    ops, kills,
    tick_binding,       \* the title and process bound when the iteration compared its sample
    session_target,     \* the title that was bound when the open session began
    active_sum,         \* seconds in closed ACTIVE intervals, tick to tick
    entered_at,         \* the tick at which the current ACTIVE interval began
    last_flush,         \* who flushed a session last, for which title, how much
    ui_ops,
    env_mode,           \* how the clock and the samples are driven in this run
    t0,                 \* the time at which the tracker was constructed
    \* locks and observers of the tracker
    data_lock,          \* _data_lock: NoThread or the thread holding it
    ui_wait,            \* the tracker call the UI thread is blocked in, or "none"
    autosave_pc,        \* the autosave loop: "wait", or "saving" under _data_lock
    notified,           \* the last (state, seconds) handed to the state observers
    cb_held,            \* the locks the tracking thread held when it last ran callbacks
    tick_pair,          \* history: the (state, seconds) the last iteration computed under _data_lock
    \* TimeTracker.stop
    shutdown_event,     \* _shutdown_event
    stop_pc,            \* where the caller of stop() is
    stop_log,           \* what this stop() has done so far, in order
    track_handle, autosave_handle,   \* whether track_thread / autosave_thread is set
    \* the files emergency_save leaves
    emergency_file,     \* log_file + ".emergency_<timestamp>"
    text_file,          \* log_file + ".emergency_<timestamp>.txt"
    \* the locking skeleton of the threads (SpecOrder)
    lk,                 \* per thread: the routine it runs and the step it is at
    pm_lock,            \* ProcessMonitor._lock: NoThread or the thread holding it
    \* the waits of the background loops (SpecPoll)
    poll,               \* per loop: where it is, consecutive_errors, and the wait it is in
    mon,                \* ProcessMonitor: its fields, the OS it looks at, its observers
    stale,              \* per loop: the thread of an earlier start() that stop() abandoned
    ret                 \* history, per thread: its last add_time/save call and how it returned

store_vars == <<data, pending_changes, store_lock, log_file, backup_file, temp_file>>
thread_vars == <<pc, frame>>
hist_vars == <<expected, contended, save_pre, crash_rec, ops, kills>>
session_vars == <<selected_vn_title, selected_process, last_start, afk_threshold,
                  current_state, last_save_time, running>>
loop_vars == <<track_pc, active_process, idle_time, is_process_active,
               current_seconds, autosave_wake>>
tick_hist == <<tick_binding, session_target, active_sum, entered_at, last_flush>>
run_vars == <<ui_ops, env_mode, t0>>
tracker_vars == <<session_vars, loop_vars, tick_hist, run_vars>>
sync_vars == <<data_lock, ui_wait, autosave_pc>>
notify_vars == <<notified, cb_held, tick_pair>>
stop_vars == <<shutdown_event, stop_pc, stop_log, track_handle, autosave_handle>>
emerg_vars == <<emergency_file, text_file>>
lk_vars == <<lk, pm_lock>>
poll_vars == <<poll, mon, stale>>
ext_rest == <<sync_vars, notify_vars, stop_vars, emerg_vars, lk_vars, poll_vars>>
ext_vars == <<ext_rest, ret>>
vars == <<store_vars, now, today, thread_vars, phase, load_raised, hist_vars,
          tracker_vars, ext_vars>>

\* Python truthiness of an optional string
Truthy(x) == x # None /\ x # ""

\* ------------------------------------------------------------- the ledger
\* self._data.get(vn_title, {}).get(date, 0)
LedgerGet(L, vn, d) ==
    IF vn \in DOMAIN L /\ d \in DOMAIN L[vn] THEN L[vn][d] ELSE 0

\* self._data.setdefault(vn_title, {})
SetDefault(L, vn) ==
    IF vn \in DOMAIN L THEN L ELSE (vn :> EmptyDay) @@ L

\* self._data[vn_title][date] = v   (the title is present)
LedgerSet(L, vn, d, v) ==
    [L EXCEPT ![vn] = (d :> v) @@ @]

\* ------------------------------------------------------------------ files
Absent == [kind |-> "absent", ledger |-> EmptyLedger]
Corrupt == [kind |-> "corrupt", ledger |-> EmptyLedger]
Json(L) == [kind |-> "json", ledger |-> L]

\* os.path.exists(f)
Exists(f) == f.kind # "absent"
\* json.load(f) returns (it raises on a file that does not parse)
Parses(f) == f.kind = "json"

\* TimeDataManager._recover_from_backup: the outcome and the ledger it leaves
recover_from_backup(cur, backup) ==
    IF Exists(backup) /\ Parses(backup)
    THEN [ok |-> TRUE, data |-> backup.ledger, raised |-> FALSE]
    ELSE [ok |-> FALSE, data |-> cur, raised |-> FALSE]

\* load with the backup never consulted (a load that forgets the recovery step)
load_result_no_backup(cur, primary, backup) ==
    IF Exists(primary) /\ Parses(primary)
    THEN [data |-> primary.ledger, raised |-> FALSE]
    ELSE [data |-> EmptyLedger, raised |-> FALSE]

\* TimeDataManager.load, as the ledger it leaves in _data and whether it raised
load_result(cur, primary, backup) ==
    IF ~Exists(primary) THEN [data |-> EmptyLedger, raised |-> FALSE]
    ELSE IF Parses(primary) THEN [data |-> primary.ledger, raised |-> FALSE]
    ELSE LET r == recover_from_backup(cur, backup)
         IN  IF r.ok THEN [data |-> r.data, raised |-> r.raised]
             ELSE [data |-> EmptyLedger, raised |-> r.raised]

\* TimeDataManager.get_today_seconds
get_today_seconds(vn) ==
    IF vn = "" \/ vn = None THEN 0 ELSE LedgerGet(data, vn, today)

\* ------------------------------------------------- the store, step by step
NoFrame == [vn |-> "", seconds |-> 0, date |-> 0, force |-> FALSE, cur |-> 0,
            es |-> FALSE]
NoCrash == [in_save |-> FALSE, pre |-> EmptyLedger, post |-> EmptyLedger,
            loaded |-> EmptyLedger, active |-> FALSE, accumulated |-> 0,
            persisted |-> 0]
\* what a thread's last call into the store saw and how it returned
NoPre == [data |-> EmptyLedger, dirty |-> FALSE, log |-> Absent, backup |-> Absent,
          temp |-> Absent]
NoRet == [op |-> "none", result |-> "none", failed |-> "none", force |-> FALSE,
          pre |-> NoPre, trace |-> << >>, since |-> 0, es |-> << >>,
          vn |-> "", value |-> << >>]
StoreNow == [data |-> data, dirty |-> pending_changes, log |-> log_file,
             backup |-> backup_file, temp |-> temp_file]
SaveTimeout == 10            \* save: self._lock.acquire(timeout=10.0)
\* add_time waiting for the lock as long as save does
AddTimeoutAsSave == SaveTimeout
AddTimeout == 5              \* add_time: self._lock.acquire(timeout=5.0)

\* acquire(timeout=limit) gives up once the caller has waited limit seconds
\* the runs in which file operations may raise
Faulty == env_mode \in {"clock", "faulty"}

\* the call of th returns: only its outcome is kept
Returned(th, result, failed) ==
    [ret EXCEPT ![th] = [NoRet EXCEPT !.op = ret[th].op, !.result = result,
                                      !.failed = failed,
                                      !.es = IF ~frame[th].es THEN << >>
                                             ELSE IF result = "ok" THEN <<"save">>
                                             ELSE <<"save_failed">>]]

\* where save returns to: its caller, or the except branch of emergency_save
SaveExit(th, ok) == IF frame[th].es /\ ~ok THEN "es_sidecar" ELSE "idle"

GivesUp(th, limit) == env_mode = "clock" => now - ret[th].since >= limit

Waiting(th) == pc[th] \in {"add_acquire", "save_acquire"}
OthersWaiting(th) == \E o \in Threads \ {th} : Waiting(o)

\* add_time without the check that seconds is positive
add_time_call_unchecked(th, vn, s, d) ==
    /\ phase = "run" /\ pc[th] = "idle" /\ ops < MaxOps
    /\ ops' = ops + 1
    /\ IF vn = ""
       THEN /\ ret' = [ret EXCEPT ![th] = [NoRet EXCEPT !.op = "add_time", !.vn = vn,
                                                     !.result = "rejected"]]
            /\ UNCHANGED thread_vars
       ELSE /\ pc' = [pc EXCEPT ![th] = "add_acquire"]
            /\ frame' = [frame EXCEPT ![th] =
                   [NoFrame EXCEPT !.vn = vn, !.seconds = s,
                                   !.date = IF d = NoDate THEN today ELSE d]]
            /\ ret' = [ret EXCEPT ![th] = [NoRet EXCEPT !.op = "add_time", !.vn = vn,
                                                     !.since = now]]
    /\ UNCHANGED <<ext_rest, tracker_vars, store_vars, now, today, phase, load_raised,
                   expected, contended, save_pre, crash_rec, kills>>

\* TimeDataManager.add_time, entry: the argument check and the default date
add_time_call(th, vn, s, d) ==
    /\ phase = "run" /\ pc[th] = "idle" /\ ops < MaxOps
    /\ ops' = ops + 1
    /\ IF vn = "" \/ s <= 0
       THEN /\ ret' = [ret EXCEPT ![th] = [NoRet EXCEPT !.op = "add_time", !.vn = vn,
                                                     !.result = "rejected"]]
            /\ UNCHANGED thread_vars
       ELSE /\ pc' = [pc EXCEPT ![th] = "add_acquire"]
            /\ frame' = [frame EXCEPT ![th] =
                   [NoFrame EXCEPT !.vn = vn, !.seconds = s,
                                   !.date = IF d = NoDate THEN today ELSE d]]
            /\ ret' = [ret EXCEPT ![th] = [NoRet EXCEPT !.op = "add_time", !.vn = vn,
                                                     !.since = now]]
    /\ UNCHANGED <<ext_rest, tracker_vars, store_vars, now, today, phase, load_raised,
                   expected, contended, save_pre, crash_rec, kills>>

\* add_time entering its critical section without waiting for the lock
add_time_acquire_unlocked(th) ==
    /\ pc[th] = "add_acquire"
    /\ store_lock' = th
    /\ pc' = [pc EXCEPT ![th] = "add_read"]
    /\ expected' = LET f == frame[th] IN
           LedgerSet(SetDefault(expected, f.vn), f.vn, f.date,
                     LedgerGet(expected, f.vn, f.date) + f.seconds)
    /\ contended' = (contended \/ OthersWaiting(th))
    /\ ret' = [ret EXCEPT ![th].pre = StoreNow]
    /\ UNCHANGED <<ext_rest, tracker_vars, data, pending_changes, log_file, backup_file, temp_file,
                   now, today, frame, phase, load_raised, save_pre, crash_rec,
                   ops, kills>>

\* self._lock.acquire(timeout=5.0) returns True
add_time_acquire(th) ==
    /\ pc[th] = "add_acquire" /\ store_lock = NoThread
    /\ store_lock' = th
    /\ pc' = [pc EXCEPT ![th] = "add_read"]
    /\ expected' = LET f == frame[th] IN
           LedgerSet(SetDefault(expected, f.vn), f.vn, f.date,
                     LedgerGet(expected, f.vn, f.date) + f.seconds)
    /\ contended' = (contended \/ OthersWaiting(th))
    /\ ret' = [ret EXCEPT ![th].pre = StoreNow]
    /\ UNCHANGED <<ext_rest, tracker_vars, data, pending_changes, log_file, backup_file, temp_file,
                   now, today, frame, phase, load_raised, save_pre, crash_rec,
                   ops, kills>>

\* self._lock.acquire(timeout=5.0) returns False: the call raises
add_time_timeout(th) ==
    /\ pc[th] = "add_acquire" /\ store_lock # NoThread
    /\ GivesUp(th, AddTimeout)
    /\ pc' = [pc EXCEPT ![th] = "idle"]
    /\ frame' = [frame EXCEPT ![th] = NoFrame]
    /\ ret' = Returned(th, "error", "lock")
    /\ UNCHANGED <<ext_rest, tracker_vars, store_vars, now, today, phase, load_raised, hist_vars>>

\* setdefault, then current_time = self._data[vn_title].get(date, 0)
add_time_read(th) ==
    /\ pc[th] = "add_read"
    /\ data' = SetDefault(data, frame[th].vn)
    /\ frame' = [frame EXCEPT ![th].cur = LedgerGet(data', frame[th].vn, frame[th].date)]
    /\ pc' = [pc EXCEPT ![th] = "add_write"]
    /\ UNCHANGED <<ext_vars, tracker_vars, pending_changes, store_lock, log_file, backup_file, temp_file,
                   now, today, phase, load_raised, hist_vars>>

\* add_time storing the seconds of the call instead of adding them
add_time_write_overwrite(th) ==
    /\ pc[th] = "add_write"
    /\ data' = LedgerSet(SetDefault(data, frame[th].vn), frame[th].vn, frame[th].date,
                         frame[th].seconds)
    /\ pending_changes' = TRUE
    /\ store_lock' = NoThread
    /\ pc' = [pc EXCEPT ![th] = "idle"]
    /\ frame' = [frame EXCEPT ![th] = NoFrame]
    /\ ret' = Returned(th, "ok", "none")
    /\ UNCHANGED <<ext_rest, tracker_vars, log_file, backup_file, temp_file, now, today, phase,
                   load_raised, hist_vars>>

\* self._data[vn_title][date] = current_time + seconds; dirty; release
add_time_write(th) ==
    /\ pc[th] = "add_write"
    /\ data' = LedgerSet(SetDefault(data, frame[th].vn), frame[th].vn, frame[th].date,
                         frame[th].cur + frame[th].seconds)
    /\ pending_changes' = TRUE
    /\ store_lock' = NoThread
    /\ pc' = [pc EXCEPT ![th] = "idle"]
    /\ frame' = [frame EXCEPT ![th] = NoFrame]
    /\ ret' = Returned(th, "ok", "none")
    /\ UNCHANGED <<ext_rest, tracker_vars, log_file, backup_file, temp_file, now, today, phase,
                   load_raised, hist_vars>>

\* TimeDataManager.save, entry
save_call(th, force) ==
    /\ phase = "run" /\ pc[th] = "idle" /\ ops < MaxOps
    /\ ops' = ops + 1
    /\ pc' = [pc EXCEPT ![th] = "save_acquire"]
    /\ frame' = [frame EXCEPT ![th] = [NoFrame EXCEPT !.force = force]]
    /\ ret' = [ret EXCEPT ![th] = [NoRet EXCEPT !.op = "save", !.since = now, !.force = force]]
    /\ UNCHANGED <<ext_rest, tracker_vars, store_vars, now, today, phase, load_raised,
                   expected, contended, save_pre, crash_rec, kills>>

\* self._lock.acquire(timeout=10.0) returns True
save_acquire(th) ==
    /\ pc[th] = "save_acquire" /\ store_lock = NoThread
    /\ store_lock' = th
    /\ pc' = [pc EXCEPT ![th] = "save_backup"]
    /\ save_pre' = load_result(EmptyLedger, log_file, backup_file).data
    /\ contended' = (contended \/ OthersWaiting(th))
    /\ ret' = [ret EXCEPT ![th].pre = StoreNow, ![th].trace = <<"acquire">>]
    /\ UNCHANGED <<ext_rest, tracker_vars, data, pending_changes, log_file, backup_file, temp_file,
                   now, today, frame, phase, load_raised, expected, crash_rec,
                   ops, kills>>

\* self._lock.acquire(timeout=10.0) returns False: the call raises
save_timeout(th) ==
    /\ pc[th] = "save_acquire" /\ store_lock # NoThread
    /\ GivesUp(th, SaveTimeout)
    /\ pc' = [pc EXCEPT ![th] = SaveExit(th, FALSE)]
    /\ frame' = [frame EXCEPT ![th] = NoFrame]
    /\ ret' = Returned(th, "error", "lock")
    /\ UNCHANGED <<ext_rest, tracker_vars, store_vars, now, today, phase, load_raised, hist_vars>>

\* if self._pending_changes or force_backup: self._create_backup()
\* shutil.copy2 opens (truncates) the destination before it copies
save_backup(th) ==
    /\ pc[th] = "save_backup"
    /\ IF (pending_changes \/ frame[th].force) /\ Exists(log_file)
       THEN /\ backup_file' = Corrupt
            /\ pc' = [pc EXCEPT ![th] = "save_backup_copy"]
       ELSE /\ UNCHANGED backup_file
            /\ pc' = [pc EXCEPT ![th] = "save_temp"]
    /\ UNCHANGED <<ext_vars, tracker_vars, data, pending_changes, store_lock, log_file, temp_file,
                   now, today, frame, phase, load_raised, hist_vars>>

\* shutil.copy2 completes
save_backup_copy(th) ==
    /\ pc[th] = "save_backup_copy"
    /\ backup_file' = log_file
    /\ pc' = [pc EXCEPT ![th] = "save_temp"]
    /\ ret' = [ret EXCEPT ![th].trace = Append(@, "backup")]
    /\ UNCHANGED <<ext_rest, tracker_vars, data, pending_changes, store_lock, log_file, temp_file,
                   now, today, frame, phase, load_raised, hist_vars>>

\* save opening the primary file itself for writing, not the temp file
save_temp_open_inplace(th) ==
    /\ pc[th] = "save_temp"
    /\ log_file' = Corrupt
    /\ pc' = [pc EXCEPT ![th] = "save_temp_dump"]
    /\ UNCHANGED <<ext_vars, tracker_vars, data, pending_changes, store_lock, temp_file, backup_file,
                   now, today, frame, phase, load_raised, hist_vars>>

\* open(self.temp_file, "w"): the temp file exists, truncated
save_temp_open(th) ==
    /\ pc[th] = "save_temp"
    /\ temp_file' = Corrupt
    /\ pc' = [pc EXCEPT ![th] = "save_temp_dump"]
    /\ UNCHANGED <<ext_vars, tracker_vars, data, pending_changes, store_lock, log_file, backup_file,
                   now, today, frame, phase, load_raised, hist_vars>>

\* json.dump(self._data, f) and close
save_temp_dump(th) ==
    /\ pc[th] = "save_temp_dump"
    /\ temp_file' = Json(data)
    /\ pc' = [pc EXCEPT ![th] = "save_validate"]
    /\ ret' = [ret EXCEPT ![th].trace = Append(@, "write")]
    /\ UNCHANGED <<ext_rest, tracker_vars, data, pending_changes, store_lock, log_file, backup_file,
                   now, today, frame, phase, load_raised, hist_vars>>

\* the temp file is read back and parsed; a failure removes it and raises
save_validate(th) ==
    /\ pc[th] = "save_validate"
    /\ IF Exists(temp_file) /\ Parses(temp_file)
       THEN /\ pc' = [pc EXCEPT ![th] = "save_replace"]
            /\ ret' = [ret EXCEPT ![th].trace = Append(@, "validate")]
            /\ UNCHANGED <<tracker_vars, temp_file, store_lock, frame>>
       ELSE /\ temp_file' = Absent
            /\ store_lock' = NoThread
            /\ pc' = [pc EXCEPT ![th] = SaveExit(th, FALSE)]
            /\ frame' = [frame EXCEPT ![th] = NoFrame]
            /\ ret' = Returned(th, "error", "validate")
    /\ UNCHANGED <<ext_rest, tracker_vars, data, pending_changes, log_file, backup_file,
                   now, today, phase, load_raised, hist_vars>>

\* os.replace(self.temp_file, self.log_file) / os.rename: atomic
save_replace(th) ==
    /\ pc[th] = "save_replace"
    /\ log_file' = temp_file
    /\ temp_file' = Absent
    /\ pc' = [pc EXCEPT ![th] = "save_finish"]
    /\ ret' = [ret EXCEPT ![th].trace = Append(@, "replace")]
    /\ UNCHANGED <<ext_rest, tracker_vars, data, pending_changes, store_lock, backup_file,
                   now, today, frame, phase, load_raised, hist_vars>>

\* self._pending_changes = False; finally: self._lock.release()
save_finish(th) ==
    /\ pc[th] = "save_finish"
    /\ pending_changes' = FALSE
    /\ store_lock' = NoThread
    /\ pc' = [pc EXCEPT ![th] = SaveExit(th, TRUE)]
    /\ frame' = [frame EXCEPT ![th] = NoFrame]
    /\ ret' = Returned(th, "ok", ret[th].failed)
    /\ UNCHANGED <<ext_rest, tracker_vars, data, log_file, backup_file, temp_file,
                   now, today, phase, load_raised, hist_vars>>

\* shutil.copy2 raises, before or after it opened the destination:
\* _create_backup prints the error and save goes on
save_backup_fail(th) ==
    /\ Faulty
    /\ \/ pc[th] = "save_backup" /\ (pending_changes \/ frame[th].force)
          /\ Exists(log_file)
       \/ pc[th] = "save_backup_copy"
    /\ pc' = [pc EXCEPT ![th] = "save_temp"]
    /\ ret' = [ret EXCEPT ![th].failed = "backup"]
    /\ UNCHANGED <<ext_rest, tracker_vars, store_vars, now, today, frame, phase,
                   load_raised, hist_vars>>

\* open(self.temp_file, "w") or json.dump raises: save prints and re-raises,
\* the finally releases the lock
save_temp_fail(th) ==
    /\ Faulty
    /\ pc[th] \in {"save_temp", "save_temp_dump"}
    /\ store_lock' = NoThread
    /\ pc' = [pc EXCEPT ![th] = SaveExit(th, FALSE)]
    /\ frame' = [frame EXCEPT ![th] = NoFrame]
    /\ ret' = Returned(th, "error", "write")
    /\ UNCHANGED <<ext_rest, tracker_vars, data, pending_changes, log_file, backup_file,
                   temp_file, now, today, phase, load_raised, hist_vars>>

\* reading the temp file back raises: the temp file is removed, save re-raises
save_validate_fail(th) ==
    /\ Faulty
    /\ pc[th] = "save_validate"
    /\ temp_file' = Absent
    /\ store_lock' = NoThread
    /\ pc' = [pc EXCEPT ![th] = SaveExit(th, FALSE)]
    /\ frame' = [frame EXCEPT ![th] = NoFrame]
    /\ ret' = Returned(th, "error", "validate")
    /\ UNCHANGED <<ext_rest, tracker_vars, data, pending_changes, log_file, backup_file,
                   now, today, phase, load_raised, hist_vars>>

\* os.replace / os.rename raises: the temp file is removed, save re-raises
save_replace_fail(th) ==
    /\ Faulty
    /\ pc[th] = "save_replace"
    /\ temp_file' = Absent
    /\ store_lock' = NoThread
    /\ pc' = [pc EXCEPT ![th] = SaveExit(th, FALSE)]
    /\ frame' = [frame EXCEPT ![th] = NoFrame]
    /\ ret' = Returned(th, "error", "replace")
    /\ UNCHANGED <<ext_rest, tracker_vars, data, pending_changes, log_file, backup_file,
                   now, today, phase, load_raised, hist_vars>>

\* the flat-text dump: one line per title and date
Text(L) == [kind |-> "text", ledger |-> L]

\* the keys of the ledger's dictionaries: a json.dump or an items() loop running
\* while another thread inserts a key raises RuntimeError
Keys(L) == [vn \in DOMAIN L |-> DOMAIN L[vn]]

\* TimeDataManager.emergency_save, entry: self.save(force_backup=True)
es_call(th) ==
    /\ phase = "run" /\ pc[th] = "idle" /\ ops < MaxOps
    /\ ops' = ops + 1
    /\ pc' = [pc EXCEPT ![th] = "save_acquire"]
    /\ frame' = [frame EXCEPT ![th] = [NoFrame EXCEPT !.force = TRUE, !.es = TRUE]]
    /\ ret' = [ret EXCEPT ![th] = [NoRet EXCEPT !.op = "emergency_save", !.since = now,
                                                !.force = TRUE]]
    /\ UNCHANGED <<ext_rest, tracker_vars, store_vars, now, today, phase, load_raised,
                   expected, contended, save_pre, crash_rec, kills>>

\* except e1: open(emergency_file, "w"), which may raise
es_sidecar_open(th, raises) ==
    /\ pc[th] = "es_sidecar"
    /\ IF raises
       THEN /\ pc' = [pc EXCEPT ![th] = "es_text"]
            /\ ret' = [ret EXCEPT ![th].es = Append(@, "sidecar_io")]
            /\ UNCHANGED emergency_file
       ELSE /\ pc' = [pc EXCEPT ![th] = "es_sidecar_dump"]
            /\ ret' = [ret EXCEPT ![th].pre = StoreNow]
            /\ emergency_file' = Corrupt
    /\ UNCHANGED <<sync_vars, notify_vars, stop_vars, text_file, lk_vars, poll_vars, tracker_vars,
                   store_vars, now, today, frame, phase, load_raised, hist_vars>>

\* json.dump(self._data, f) into the sidecar, the store lock not held: it
\* completes, or a write raises, or (the ledger's keys having changed under
\* it) the iteration raises
es_sidecar_dump(th, outcome) ==
    /\ pc[th] = "es_sidecar_dump"
    /\ outcome = "race" => Keys(data) # Keys(ret[th].pre.data)
    /\ IF outcome = "ok"
       THEN /\ emergency_file' = Json(data)
            /\ pc' = [pc EXCEPT ![th] = "idle"]
            /\ ret' = [ret EXCEPT ![th].es = Append(@, "sidecar"), ![th].result = "ok"]
       ELSE /\ UNCHANGED emergency_file
            /\ pc' = [pc EXCEPT ![th] = "es_text"]
            /\ ret' = [ret EXCEPT ![th].es = Append(@, "sidecar_" \o outcome)]
    /\ UNCHANGED <<sync_vars, notify_vars, stop_vars, text_file, lk_vars, poll_vars, tracker_vars,
                   store_vars, now, today, frame, phase, load_raised, hist_vars>>

\* except e2: open(text_file, "w"), which may raise; except e3 prints
es_text_open(th, raises) ==
    /\ pc[th] = "es_text"
    /\ IF raises
       THEN /\ pc' = [pc EXCEPT ![th] = "idle"]
            /\ ret' = [ret EXCEPT ![th].es = Append(@, "text_io"), ![th].result = "ok"]
            /\ UNCHANGED text_file
       ELSE /\ pc' = [pc EXCEPT ![th] = "es_text_dump"]
            /\ ret' = [ret EXCEPT ![th].pre = StoreNow]
            /\ text_file' = Corrupt
    /\ UNCHANGED <<sync_vars, notify_vars, stop_vars, emergency_file, lk_vars, poll_vars,
                   tracker_vars, store_vars, now, today, frame, phase, load_raised,
                   hist_vars>>

\* the loops over self._data.items() and dates.items() writing the text dump
es_text_dump(th, outcome) ==
    /\ pc[th] = "es_text_dump"
    /\ outcome = "race" => Keys(data) # Keys(ret[th].pre.data)
    /\ text_file' = IF outcome = "ok" THEN Text(data) ELSE text_file
    /\ pc' = [pc EXCEPT ![th] = "idle"]
    /\ ret' = [ret EXCEPT ![th].es = Append(@, IF outcome = "ok" THEN "text"
                                               ELSE "text_" \o outcome),
                          ![th].result = "ok"]
    /\ UNCHANGED <<sync_vars, notify_vars, stop_vars, emergency_file, lk_vars, poll_vars,
                   tracker_vars, store_vars, now, today, frame, phase, load_raised,
                   hist_vars>>

\* how a dump can end
DumpOutcomes == {"ok", "io", "race"}

\* a second of wall-clock time passes while some thread waits for the store
\* lock; a thread in acquire(timeout=...) has returned by its deadline
clock_tick ==
    /\ phase = "run" /\ env_mode = "clock"
    /\ now - t0 < MaxClock
    /\ \E th \in Threads : Waiting(th)
    /\ \A th \in Threads :
          /\ pc[th] = "add_acquire" => now - ret[th].since < AddTimeout
          /\ pc[th] = "save_acquire" => now - ret[th].since < SaveTimeout
    /\ now' = now + 1
    /\ UNCHANGED <<ext_vars, tracker_vars, store_vars, today, thread_vars, phase,
                   load_raised, hist_vars>>

\* TimeDataManager.__init__ calls load(): self._data = {} first
load ==
    /\ phase = "ctor"
    /\ LET r == load_result(data, log_file, backup_file) IN
         /\ data' = r.data
         /\ load_raised' = r.raised
         /\ expected' = r.data
    /\ pending_changes' = FALSE
    /\ phase' = "run"
    /\ UNCHANGED <<ext_vars, tracker_vars, store_lock, log_file, backup_file, temp_file, now, today,
                   thread_vars, contended, save_pre, crash_rec, ops, kills>>

\* from the temp file's open to the return of save
SaveWindow == {"save_temp_dump", "save_validate", "save_replace", "save_finish"}

\* ---------------------------------------------- the ledger's other operations
\* Dates are day numbers: "%Y-%m-%d" of (today - timedelta(days=i)) is the
\* key of day today - i.
WeekDays == 7                \* get_weekly_seconds: range(7)
MonthDays == 30              \* get_monthly_seconds: range(30)

\* total = 0; for i in range(n): total += self._data.get(vn, {}).get(date_i, 0)
RECURSIVE SumBack(_, _, _, _)
SumBack(L, vn, t, n) ==
    IF n = 0 THEN 0 ELSE SumBack(L, vn, t, n - 1) + LedgerGet(L, vn, t - (n - 1))

\* for date, seconds in vn_data.items(): total += seconds
RECURSIVE SumItems(_, _)
SumItems(day, ds) ==
    IF ds = {} THEN 0
    ELSE LET d == CHOOSE x \in ds : TRUE IN day[d] + SumItems(day, ds \ {d})

\* a weekly sum that reaches back one day too far
get_weekly_seconds_8(vn) ==
    IF ~Truthy(vn) THEN 0 ELSE SumBack(data, vn, today, WeekDays + 1)

\* TimeDataManager.get_weekly_seconds
get_weekly_seconds(vn) ==
    IF ~Truthy(vn) THEN 0 ELSE SumBack(data, vn, today, WeekDays)

\* TimeDataManager.get_monthly_seconds
get_monthly_seconds(vn) ==
    IF ~Truthy(vn) THEN 0 ELSE SumBack(data, vn, today, MonthDays)

\* TimeDataManager.get_total_seconds
get_total_seconds(vn) ==
    IF ~Truthy(vn) THEN 0
    ELSE IF vn \in DOMAIN data THEN SumItems(data[vn], DOMAIN data[vn]) ELSE 0

\* one of the four queries is called on the UI thread; what it returned is kept
get_seconds(vn) ==
    /\ phase = "run" /\ pc["ui"] = "idle" /\ ops < MaxOps
    /\ ops' = ops + 1
    /\ ret' = [ret EXCEPT !["ui"] =
                 [NoRet EXCEPT !.op = "get_seconds", !.vn = vn, !.pre = StoreNow,
                               !.value = <<get_today_seconds(vn), get_weekly_seconds(vn),
                                           get_monthly_seconds(vn),
                                           get_total_seconds(vn)>>]]
    /\ UNCHANGED <<ext_rest, tracker_vars, store_vars, now, today, thread_vars, phase,
                   load_raised, expected, contended, save_pre, crash_rec, kills>>

\* reset_today writing the entry of the day before
dm_reset_yesterday(vn) ==
    /\ phase = "run" /\ pc["ui"] = "idle" /\ ops < MaxOps
    /\ store_lock = NoThread
    /\ ops' = ops + 1
    /\ IF ~Truthy(vn)
       THEN UNCHANGED <<data, pending_changes>>
       ELSE /\ data' = LedgerSet(SetDefault(data, vn), vn, today - 1, 0)
            /\ pending_changes' = TRUE
    /\ ret' = [ret EXCEPT !["ui"] =
                 [NoRet EXCEPT !.op = "reset_today", !.vn = vn, !.pre = StoreNow]]
    /\ UNCHANGED <<ext_rest, tracker_vars, store_lock, log_file, backup_file, temp_file,
                   now, today, thread_vars, phase, load_raised, expected, contended,
                   save_pre, crash_rec, kills>>

\* TimeDataManager.reset_today, called on the UI thread: with self._lock
dm_reset_today(vn) ==
    /\ phase = "run" /\ pc["ui"] = "idle" /\ ops < MaxOps
    /\ store_lock = NoThread
    /\ ops' = ops + 1
    /\ IF ~Truthy(vn)
       THEN UNCHANGED <<data, pending_changes>>
       ELSE /\ data' = LedgerSet(SetDefault(data, vn), vn, today, 0)
            /\ pending_changes' = TRUE
    /\ ret' = [ret EXCEPT !["ui"] =
                 [NoRet EXCEPT !.op = "reset_today", !.vn = vn, !.pre = StoreNow]]
    /\ UNCHANGED <<ext_rest, tracker_vars, store_lock, log_file, backup_file, temp_file,
                   now, today, thread_vars, phase, load_raised, expected, contended,
                   save_pre, crash_rec, kills>>

\* VNTrackerMainWindow.remove_vn_from_library, confirmed by the
\* user: it refuses the title being tracked; data_manager.delete_vn_data is not
\* a method of TimeDataManager, the call raises AttributeError, and the
\* except branch reports the failure: neither the save nor the config
\* manager's removal that follow the call are reached.
remove_vn(vn) ==
    /\ phase = "run" /\ pc["ui"] = "idle" /\ ops < MaxOps
    /\ Truthy(vn)
    /\ ~(running /\ selected_vn_title = vn)
    /\ ops' = ops + 1
    /\ ret' = [ret EXCEPT !["ui"] =
                 [NoRet EXCEPT !.op = "remove_vn", !.vn = vn, !.pre = StoreNow,
                               !.result = "error"]]
    /\ UNCHANGED <<ext_rest, tracker_vars, store_vars, now, today, thread_vars, phase,
                   load_raised, expected, contended, save_pre, crash_rec, kills>>

\* ------------------------------------------------------------ the tracker
NoTime == -1                 \* last_start is None
save_interval == 10          \* TimeTracker._save_interval
DefaultAfkThreshold == 60    \* TimeTracker.afk_threshold as constructed
AutosavePeriod == 30         \* the autosave loop's wait between saves
AutosaveRetry == 5           \* the autosave loop's sleep after a lock timeout

\* what get_active_process returns: a lower-cased name, or None
Foregrounds == {"foo.exe", "bar.exe", None}
\* what get_last_input_time returns, in seconds
IdleSamples == {0, 60, 61}
\* the process names the UI hands to set_target
ProcArgs == {"Foo.exe", "bar.exe"}
\* the values the UI hands to set_afk_threshold
ThresholdArgs == {-1, 60}


\* str.lower on the process names used here
Lower(p) == IF p = "Foo.exe" THEN "foo.exe" ELSE p

NoFlush == [by |-> "none", vn |-> "", elapsed |-> 0]

\* TimeDataManager.add_time as one step, on a ledger and its dirty flag
add_time(st, vn, s) ==
    IF ~Truthy(vn) \/ s <= 0 THEN st
    ELSE [data |-> LedgerSet(SetDefault(st.data, vn), vn, today,
                             LedgerGet(st.data, vn, today) + s),
          pending |-> TRUE]

\* TimeTracker.get_current_seconds over given session fields
current_seconds_of(L, vn, ls) ==
    IF ~Truthy(vn) THEN 0
    ELSE LedgerGet(L, vn, today) + (IF ls # NoTime THEN now - ls ELSE 0)

\* TimeTracker.get_current_seconds
get_current_seconds == current_seconds_of(data, selected_vn_title, last_start)

\* a tick that never yields AFK
TickState_no_afk(active, idle, thr) ==
    IF ~active THEN "INACTIVE" ELSE "ACTIVE"

\* a tick on which an idle time equal to the threshold already counts as AFK
TickState_ge(active, idle, thr) ==
    IF ~active THEN "INACTIVE"
    ELSE IF idle >= thr THEN "AFK"
    ELSE "ACTIVE"

\* the tick's state: if not is_process_active / elif idle_time > afk_threshold / else
TickState(active, idle, thr) ==
    IF ~active THEN "INACTIVE"
    ELSE IF idle > thr THEN "AFK"
    ELSE "ACTIVE"

\* an ACTIVE tick that restarts the session every time
open_session_always(ls) == now

\* ACTIVE: if self.last_start is None: self.last_start = time.time()
open_session(ls) == IF ls = NoTime THEN now ELSE ls

\* a partial flush that leaves last_start where it was
after_partial_flush_keep(ls, ct) == [last_start |-> ls, last_save_time |-> ct]

\* the partial flush's reset: last_start = current_time; _last_save_time = current_time
after_partial_flush(ls, ct) == [last_start |-> ct, last_save_time |-> ct]

\* The locked part of one iteration, as the values it leaves.
TickOutcome ==
    LET state == TickState(is_process_active, idle_time, afk_threshold)
        closes == state # "ACTIVE" /\ last_start # NoTime
        st0 == [data |-> data, pending |-> pending_changes]
        st1 == IF closes THEN add_time(st0, selected_vn_title, now - last_start)
               ELSE st0
        ls1 == IF closes THEN NoTime
               ELSE IF state = "ACTIVE" THEN open_session(last_start)
               ELSE last_start
        current_time == now
        due == state = "ACTIVE" /\ ls1 # NoTime
                   /\ current_time - last_save_time > save_interval
        elapsed == current_time - ls1
        partial == due /\ elapsed > 0
        st2 == IF partial THEN add_time(st1, selected_vn_title, elapsed) ELSE st1
        r == IF partial THEN after_partial_flush(ls1, current_time)
             ELSE [last_start |-> ls1, last_save_time |-> last_save_time]
    IN  [state |-> state, closes |-> closes, partial |-> partial,
         opens |-> (state = "ACTIVE" /\ last_start = NoTime),
         elapsed |-> IF closes THEN now - last_start ELSE IF partial THEN elapsed ELSE 0,
         data |-> st2.data, pending |-> st2.pending,
         last_start |-> r.last_start, last_save_time |-> r.last_save_time]

\* the iteration calls add_time: a closing flush or a partial flush
TickFlushes == TickOutcome.closes \/ TickOutcome.partial

\* an iteration that goes on to the sampler with nothing bound
track_check_sampling ==
    /\ phase = "run" /\ running /\ track_pc = "check"
    /\ IF ~Truthy(selected_process) \/ ~Truthy(selected_vn_title)
       THEN /\ current_state' = "INACTIVE"
            /\ track_pc' = "sample"
            /\ IF current_state = "ACTIVE"
               THEN /\ active_sum' = active_sum + (now - entered_at)
                    /\ entered_at' = NoTime
               ELSE UNCHANGED <<active_sum, entered_at>>
       ELSE /\ track_pc' = "sample"
            /\ UNCHANGED <<current_state, active_sum, entered_at>>
    /\ UNCHANGED <<ext_vars, store_vars, now, today, thread_vars, phase, load_raised, hist_vars,
                   selected_vn_title, selected_process, last_start, afk_threshold,
                   last_save_time, running, active_process, idle_time,
                   is_process_active, current_seconds, autosave_wake,
                   tick_binding, session_target, last_flush, ui_ops, env_mode, t0>>

\* _track_loop, top of an iteration: nothing is bound, INACTIVE and sleep
track_check ==
    /\ phase = "run" /\ running /\ track_pc = "check"
    /\ IF ~Truthy(selected_process) \/ ~Truthy(selected_vn_title)
       THEN /\ current_state' = "INACTIVE"
            /\ track_pc' = "sleep"
            /\ IF current_state = "ACTIVE"
               THEN /\ active_sum' = active_sum + (now - entered_at)
                    /\ entered_at' = NoTime
               ELSE UNCHANGED <<active_sum, entered_at>>
       ELSE /\ track_pc' = "sample"
            /\ UNCHANGED <<current_state, active_sum, entered_at>>
    /\ UNCHANGED <<ext_vars, store_vars, now, today, thread_vars, phase, load_raised, hist_vars,
                   selected_vn_title, selected_process, last_start, afk_threshold,
                   last_save_time, running, active_process, idle_time,
                   is_process_active, current_seconds, autosave_wake,
                   tick_binding, session_target, last_flush, ui_ops, env_mode, t0>>

\* the foreground process and idle time the scenario of the specification
\* dictates at second t of the run (idle between t=15 and t=75 stays within
\* the threshold)
ScriptForeground(t) == IF t >= 10 /\ t < 15 THEN "bar.exe" ELSE "foo.exe"
ScriptIdles(t) == IF t >= 75 THEN {61} ELSE IF t > 15 THEN {0, 60} ELSE {0}

\* the two samples, and is_process_active computed from them (before the lock)
track_sample(fg, idle) ==
    /\ phase = "run" /\ track_pc = "sample"
    /\ env_mode = "script" => fg = ScriptForeground(now - t0) /\ idle \in ScriptIdles(now - t0)
    /\ active_process' = fg
    /\ idle_time' = idle
    /\ is_process_active' = (fg = selected_process)
    /\ tick_binding' = <<selected_vn_title, selected_process>>
    /\ track_pc' = "sampled"
    /\ UNCHANGED <<ext_vars, store_vars, now, today, thread_vars, phase, load_raised, hist_vars,
                   session_vars, current_seconds, autosave_wake, session_target,
                   active_sum, entered_at, last_flush, run_vars>>

\* self._data_lock.acquire(timeout=2.0) returns True
track_acquire ==
    /\ phase = "run" /\ track_pc = "sampled" /\ data_lock = NoThread
    /\ data_lock' = "track"
    /\ track_pc' = "locked"
    /\ UNCHANGED <<store_vars, now, today, thread_vars, phase, load_raised, hist_vars,
                   session_vars, active_process, idle_time, is_process_active,
                   current_seconds, autosave_wake, tick_hist, run_vars,
                   ui_wait, autosave_pc, notify_vars, stop_vars, emerg_vars, lk_vars, poll_vars, ret>>

\* self._data_lock.acquire(timeout=2.0) returns False: log, sleep, next iteration
track_lock_timeout ==
    /\ phase = "run" /\ track_pc = "sampled" /\ data_lock # NoThread
    /\ track_pc' = "sleep"
    /\ UNCHANGED <<store_vars, now, today, thread_vars, phase, load_raised, hist_vars,
                   session_vars, active_process, idle_time, is_process_active,
                   current_seconds, autosave_wake, tick_hist, run_vars, ext_vars>>

\* the iteration keeps _data_lock while it calls the observers
tick_release_late == "track"

\* finally: self._data_lock.release(), before the observers are called
tick_release == NoThread

\* the part of the iteration that runs under _data_lock, up to its release
track_locked ==
    /\ phase = "run" /\ track_pc = "locked"
    /\ (running /\ TickFlushes) => store_lock = NoThread
    /\ data_lock' = tick_release
    /\ IF ~running
       THEN /\ track_pc' = "done"
            /\ UNCHANGED <<tick_pair, data, pending_changes, last_start, last_save_time,
                           current_state, current_seconds, session_target,
                           active_sum, entered_at, last_flush>>
       ELSE LET o == TickOutcome IN
            /\ data' = o.data
            /\ pending_changes' = o.pending
            /\ last_start' = o.last_start
            /\ last_save_time' = o.last_save_time
            /\ current_state' = o.state
            /\ current_seconds' = current_seconds_of(o.data, selected_vn_title, o.last_start)
            /\ track_pc' = "callbacks"
            /\ tick_pair' = [state |-> o.state,
                             seconds |-> current_seconds_of(o.data, selected_vn_title,
                                                            o.last_start)]
            /\ session_target' = IF o.opens THEN selected_vn_title
                                 ELSE IF o.closes THEN None ELSE session_target
            /\ last_flush' = IF o.closes \/ o.partial
                             THEN [by |-> "tick", vn |-> selected_vn_title,
                                   elapsed |-> o.elapsed]
                             ELSE last_flush
            /\ IF o.state = "ACTIVE" /\ current_state # "ACTIVE"
               THEN entered_at' = now /\ UNCHANGED active_sum
               ELSE IF o.state # "ACTIVE" /\ current_state = "ACTIVE"
               THEN active_sum' = active_sum + (now - entered_at) /\ entered_at' = NoTime
               ELSE UNCHANGED <<active_sum, entered_at>>
    /\ UNCHANGED <<ui_wait, autosave_pc, notified, cb_held, stop_vars, emerg_vars, lk_vars, poll_vars, ret, store_lock, log_file, backup_file, temp_file, now, today, thread_vars,
                   phase, load_raised, hist_vars, selected_vn_title, selected_process,
                   afk_threshold, running, active_process, idle_time, is_process_active,
                   autosave_wake, tick_binding, ui_ops, env_mode, t0>>

\* The locked part of an iteration whose add_time call raises: another thread
\* keeps the store's lock for the 5 s of acquire(timeout=5.0), safe_call logs
\* the exception and returns None, and the iteration goes on to the assignment
\* after the call (last_start = None, or last_start = current_time and
\* _last_save_time = current_time).
track_locked_add_fails ==
    /\ phase = "run" /\ track_pc = "locked" /\ running
    /\ TickFlushes /\ TickOutcome.elapsed > 0
    /\ store_lock \notin {NoThread, "track"}
    /\ data_lock' = tick_release
    /\ LET o == TickOutcome IN
         /\ last_start' = o.last_start
         /\ last_save_time' = o.last_save_time
         /\ current_state' = o.state
         /\ current_seconds' = current_seconds_of(data, selected_vn_title, o.last_start)
         /\ track_pc' = "callbacks"
         /\ tick_pair' = [state |-> o.state,
                          seconds |-> current_seconds_of(data, selected_vn_title,
                                                         o.last_start)]
         /\ session_target' = IF o.closes THEN None ELSE session_target
         /\ last_flush' = [by |-> "tick", vn |-> selected_vn_title, elapsed |-> o.elapsed]
         /\ ret' = [ret EXCEPT !["track"] =
                      [NoRet EXCEPT !.op = "add_time", !.vn = selected_vn_title,
                                    !.pre = StoreNow, !.failed = "lock",
                                    !.result = "timeout"]]
         /\ IF o.state # "ACTIVE" /\ current_state = "ACTIVE"
            THEN active_sum' = active_sum + (now - entered_at) /\ entered_at' = NoTime
            ELSE UNCHANGED <<active_sum, entered_at>>
    /\ UNCHANGED <<ui_wait, autosave_pc, notified, cb_held, stop_vars, emerg_vars, lk_vars, poll_vars,
                   store_vars, now, today, thread_vars,
                   phase, load_raised, hist_vars, selected_vn_title, selected_process,
                   afk_threshold, running, active_process, idle_time, is_process_active,
                   autosave_wake, tick_binding, ui_ops, env_mode, t0>>

\* the state callbacks and the update callbacks, after the lock's release
track_callbacks ==
    /\ phase = "run" /\ track_pc = "callbacks"
    /\ IF running
       THEN /\ notified' = [state |-> current_state, seconds |-> current_seconds]
            /\ cb_held' = (IF data_lock = "track" THEN {"data"} ELSE {})
                              \cup (IF store_lock = "track" THEN {"store"} ELSE {})
            /\ UNCHANGED tick_pair
       ELSE UNCHANGED notify_vars
    /\ track_pc' = "sleep"
    /\ UNCHANGED <<store_vars, now, today, thread_vars, phase, load_raised, hist_vars,
                   session_vars, active_process, idle_time, is_process_active,
                   current_seconds, autosave_wake, tick_hist, run_vars, sync_vars,
                   stop_vars, emerg_vars, lk_vars, poll_vars, ret>>

\* time.sleep(1) ends; the wall clock moves on by one second.  A paced run
\* has one iteration per second and the autosave loop never late; a free run
\* lets the clock move at any point of an iteration.
Advance ==
    /\ phase = "run"
    /\ now - t0 < (IF env_mode = "script" THEN ScenarioEnd
                   ELSE IF env_mode = "paced" THEN Horizon
                   ELSE IF env_mode = "free" THEN StartDelay + MaxAdvance
                   ELSE MaxAdvance)
    /\ env_mode # "free" =>
           track_pc = "sleep" /\ autosave_pc = "wait" /\ now < autosave_wake
    /\ now' = now + 1
    /\ track_pc' = IF track_pc = "sleep" THEN "check" ELSE track_pc
    /\ UNCHANGED <<ext_vars, store_vars, today, thread_vars, phase, load_raised, hist_vars,
                   session_vars, active_process, idle_time, is_process_active,
                   current_seconds, autosave_wake, tick_hist, run_vars>>

\* _autosave_loop: self._data_lock.acquire(timeout=5.0) returns True
autosave_begin ==
    /\ phase = "run" /\ running /\ autosave_pc = "wait" /\ now >= autosave_wake
    /\ data_lock = NoThread
    /\ data_lock' = "autosave"
    /\ autosave_pc' = "saving"
    /\ UNCHANGED <<store_vars, now, today, thread_vars, phase, load_raised, hist_vars,
                   tracker_vars, ui_wait, notify_vars, stop_vars, emerg_vars, lk_vars, poll_vars, ret>>

\* _autosave_loop: data_manager.save() under _data_lock, the release, then
\* the 30 s wait
autosave ==
    /\ phase = "run" /\ autosave_pc = "saving"
    /\ data_lock' = NoThread
    /\ autosave_pc' = "wait"
    /\ backup_file' = IF pending_changes /\ Exists(log_file) THEN log_file
                      ELSE backup_file
    /\ log_file' = Json(data)
    /\ pending_changes' = FALSE
    /\ autosave_wake' = now + AutosavePeriod
    /\ UNCHANGED <<ui_wait, notify_vars, stop_vars, emerg_vars, lk_vars, poll_vars, ret, data, store_lock, temp_file, now, today, thread_vars, phase,
                   load_raised, hist_vars, session_vars, track_pc, active_process,
                   idle_time, is_process_active, current_seconds, tick_hist, run_vars>>

\* set_target binding the new target before it flushes the pending time
set_target_bind_first(vn, p) ==
    /\ phase = "run" /\ ui_ops < MaxUiOps /\ data_lock = NoThread
    /\ ui_wait \in {"none", "set_target"} /\ ui_wait' = "none"
    /\ ui_ops' = ui_ops + 1
    /\ LET flush == Truthy(vn) /\ last_start # NoTime
           st == IF flush
                 THEN add_time([data |-> data, pending |-> pending_changes],
                               vn, now - last_start)
                 ELSE [data |-> data, pending |-> pending_changes]
       IN  /\ data' = st.data
           /\ pending_changes' = st.pending
           /\ last_start' = IF flush THEN NoTime ELSE last_start
           /\ session_target' = IF flush THEN None ELSE session_target
           /\ last_flush' = IF flush
                            THEN [by |-> "set_target", vn |-> vn,
                                  elapsed |-> now - last_start]
                            ELSE last_flush
    /\ selected_vn_title' = vn
    /\ selected_process' = IF Truthy(p) THEN Lower(p) ELSE None
    /\ UNCHANGED <<data_lock, autosave_pc, notify_vars, stop_vars, emerg_vars, lk_vars, poll_vars, ret, store_lock, log_file, backup_file, temp_file, now, today,
                   thread_vars, phase, load_raised, hist_vars, afk_threshold,
                   current_state, last_save_time, running, loop_vars,
                   tick_binding, active_sum, entered_at, env_mode, t0>>

\* TimeTracker.set_target
set_target(vn, p) ==
    /\ phase = "run" /\ ui_ops < MaxUiOps /\ data_lock = NoThread
    /\ ui_wait \in {"none", "set_target"} /\ ui_wait' = "none"
    /\ ui_ops' = ui_ops + 1
    /\ LET flush == Truthy(selected_vn_title) /\ last_start # NoTime
           st == IF flush
                 THEN add_time([data |-> data, pending |-> pending_changes],
                               selected_vn_title, now - last_start)
                 ELSE [data |-> data, pending |-> pending_changes]
       IN  /\ data' = st.data
           /\ pending_changes' = st.pending
           /\ last_start' = IF flush THEN NoTime ELSE last_start
           /\ session_target' = IF flush THEN None ELSE session_target
           /\ last_flush' = IF flush
                            THEN [by |-> "set_target", vn |-> selected_vn_title,
                                  elapsed |-> now - last_start]
                            ELSE last_flush
    /\ selected_vn_title' = vn
    /\ selected_process' = IF Truthy(p) THEN Lower(p) ELSE None
    /\ UNCHANGED <<data_lock, autosave_pc, notify_vars, stop_vars, emerg_vars, lk_vars, poll_vars, ret, store_lock, log_file, backup_file, temp_file, now, today,
                   thread_vars, phase, load_raised, hist_vars, afk_threshold,
                   current_state, last_save_time, running, loop_vars,
                   tick_binding, active_sum, entered_at, env_mode, t0>>

\* MainWindow.stop_tracking: flush under _data_lock, clear the target, then
\* on_tracking_state_changed(INACTIVE, the seconds read before the flush)
stop_tracking ==
    /\ phase = "run" /\ ui_ops < MaxUiOps /\ data_lock = NoThread
    /\ ui_wait \in {"none", "stop_tracking"} /\ ui_wait' = "none"
    /\ notified' = [state |-> "INACTIVE",
                     seconds |-> IF Truthy(selected_vn_title)
                                 THEN get_current_seconds ELSE 0]
    /\ ui_ops' = ui_ops + 1
    /\ LET flush == Truthy(selected_vn_title) /\ last_start # NoTime
           st == IF flush
                 THEN add_time([data |-> data, pending |-> pending_changes],
                               selected_vn_title, now - last_start)
                 ELSE [data |-> data, pending |-> pending_changes]
       IN  /\ data' = st.data
           /\ pending_changes' = st.pending
           /\ last_start' = IF flush THEN NoTime ELSE last_start
           /\ session_target' = IF flush THEN None ELSE session_target
           /\ last_flush' = IF flush
                            THEN [by |-> "stop_tracking", vn |-> selected_vn_title,
                                  elapsed |-> now - last_start]
                            ELSE last_flush
    /\ selected_vn_title' = None
    /\ selected_process' = None
    /\ UNCHANGED <<data_lock, autosave_pc, cb_held, tick_pair, stop_vars, emerg_vars, lk_vars, poll_vars, ret, store_lock, log_file, backup_file, temp_file, now, today,
                   thread_vars, phase, load_raised, hist_vars, afk_threshold,
                   current_state, last_save_time, running, loop_vars,
                   tick_binding, active_sum, entered_at, env_mode, t0>>

\* TimeTracker.set_afk_threshold: max(0, seconds)
set_afk_threshold(s) ==
    /\ phase = "run" /\ ui_ops < MaxUiOps /\ data_lock = NoThread
    /\ ui_wait \in {"none", "set_afk_threshold"} /\ ui_wait' = "none"
    /\ ui_ops' = ui_ops + 1
    /\ afk_threshold' = IF s > 0 THEN s ELSE 0
    /\ UNCHANGED <<data_lock, autosave_pc, notify_vars, stop_vars, emerg_vars, lk_vars, poll_vars, ret, store_vars, now, today, thread_vars, phase, load_raised, hist_vars,
                   selected_vn_title, selected_process, last_start, current_state,
                   last_save_time, running, loop_vars, tick_hist, env_mode, t0>>

\* TimeDataManager.save in one step on the files: the backup copy if the
\* ledger is dirty or force_backup is set and the primary exists, then the
\* primary replaced by the JSON of the ledger
saved(L, dirty, force) ==
    [log |-> Json(L),
     backup |-> IF (dirty \/ force) /\ Exists(log_file) THEN log_file ELSE backup_file]

\* the tracking loop leaves: while self.running is false at the top
track_exit ==
    /\ phase = "run" /\ track_pc = "check" /\ ~running
    /\ track_pc' = "done"
    /\ UNCHANGED <<store_vars, now, today, thread_vars, phase, load_raised, hist_vars,
                   session_vars, active_process, idle_time, is_process_active,
                   current_seconds, autosave_wake, tick_hist, run_vars, ext_vars>>

\* the autosave loop leaves: its wait polls running and the shutdown event
autosave_exit ==
    /\ phase = "run" /\ autosave_pc = "wait" /\ (~running \/ shutdown_event)
    /\ autosave_pc' = "done"
    /\ UNCHANGED <<store_vars, now, today, thread_vars, phase, load_raised, hist_vars,
                   tracker_vars, data_lock, ui_wait, notify_vars, stop_vars, emerg_vars, lk_vars, poll_vars, ret>>

\* TimeTracker.stop, entry: if self.running: self._shutdown_event.set()
stop_call ==
    /\ phase = "run" /\ stop_pc = "idle" /\ running /\ ui_wait = "none"
    /\ shutdown_event' = TRUE
    /\ stop_pc' = "acquire"
    /\ stop_log' = <<"signal">>
    /\ UNCHANGED <<store_vars, now, today, thread_vars, phase, load_raised, hist_vars,
                   tracker_vars, sync_vars, notify_vars, track_handle,
                   autosave_handle, emerg_vars, lk_vars, poll_vars, ret>>

\* stop waiting for the lock without a timeout
stop_lock_wait(th) ==
    /\ FALSE
    /\ UNCHANGED vars

\* stop: self._data_lock.acquire(timeout=10.0) returns False
stop_lock_timeout(th) ==
    /\ stop_pc = "acquire" /\ data_lock \notin {NoThread, th}
    /\ stop_pc' = "emergency"
    /\ UNCHANGED <<store_vars, now, today, thread_vars, phase, load_raised, hist_vars,
                   tracker_vars, sync_vars, notify_vars, shutdown_event, stop_log,
                   track_handle, autosave_handle, emerg_vars, lk_vars, poll_vars, ret>>

\* stop: self._data_lock.acquire(timeout=10.0) returns True
stop_acquire(th) ==
    /\ stop_pc = "acquire" /\ data_lock \in {NoThread, th}
    /\ data_lock' = th
    /\ stop_pc' = "flush"
    /\ UNCHANGED <<store_vars, now, today, thread_vars, phase, load_raised, hist_vars,
                   tracker_vars, ui_wait, autosave_pc, notify_vars, shutdown_event,
                   stop_log, track_handle, autosave_handle, emerg_vars, lk_vars, poll_vars, ret>>

\* stop under the lock: the final flush, save(force_backup=True) through
\* safe_call, and the release
stop_final_flush ==
    /\ stop_pc = "flush"
    /\ LET flush == Truthy(selected_vn_title) /\ last_start # NoTime
           st == IF flush
                 THEN add_time([data |-> data, pending |-> pending_changes],
                               selected_vn_title, now - last_start)
                 ELSE [data |-> data, pending |-> pending_changes]
           ok == store_lock = NoThread
           f == saved(st.data, st.pending, TRUE)
       IN  /\ data' = st.data
           /\ pending_changes' = IF ok THEN FALSE ELSE st.pending
           /\ log_file' = IF ok THEN f.log ELSE log_file
           /\ backup_file' = IF ok THEN f.backup ELSE backup_file
           /\ last_start' = IF flush THEN NoTime ELSE last_start
           /\ session_target' = IF flush THEN None ELSE session_target
           /\ last_flush' = IF flush
                            THEN [by |-> "stop", vn |-> selected_vn_title,
                                  elapsed |-> now - last_start]
                            ELSE last_flush
           /\ stop_log' = stop_log \o <<"flush", "save">>
    /\ data_lock' = NoThread
    /\ stop_pc' = "unset"
    /\ UNCHANGED <<store_lock, temp_file, now, today, thread_vars, phase, load_raised,
                   hist_vars, selected_vn_title, selected_process, afk_threshold,
                   current_state, last_save_time, running, loop_vars, tick_binding,
                   active_sum, entered_at, run_vars, ui_wait, autosave_pc,
                   notify_vars, shutdown_event, track_handle, autosave_handle,
                   emerg_vars, lk_vars, poll_vars, ret>>

\* stop without the lock: data_manager.emergency_save(), here with no stage
\* failing: save(force_backup=True) if the store lock is free, else the
\* sidecar file
stop_emergency ==
    /\ stop_pc = "emergency"
    /\ LET ok == store_lock = NoThread
           f == saved(data, pending_changes, TRUE)
       IN  /\ pending_changes' = IF ok THEN FALSE ELSE pending_changes
           /\ log_file' = IF ok THEN f.log ELSE log_file
           /\ backup_file' = IF ok THEN f.backup ELSE backup_file
           /\ emergency_file' = IF ok THEN emergency_file ELSE Json(data)
    /\ stop_log' = Append(stop_log, "emergency")
    /\ stop_pc' = "unset"
    /\ UNCHANGED <<data, store_lock, temp_file, now, today, thread_vars, phase,
                   load_raised, hist_vars, selected_vn_title, selected_process,
                   last_start, afk_threshold, current_state, last_save_time,
                   running, loop_vars, tick_hist, run_vars, sync_vars, notify_vars,
                   shutdown_event, track_handle, autosave_handle, text_file,
                   lk_vars, poll_vars, ret>>

\* stop: self.running = False, after the lock has been released
stop_clear_running ==
    /\ stop_pc = "unset"
    /\ running' = FALSE
    /\ stop_pc' = "join_track"
    /\ UNCHANGED <<store_vars, now, today, thread_vars, phase, load_raised, hist_vars,
                   selected_vn_title, selected_process, last_start, afk_threshold,
                   current_state, last_save_time, loop_vars, tick_hist, run_vars,
                   sync_vars, notify_vars, shutdown_event, stop_log, track_handle,
                   autosave_handle, emerg_vars, lk_vars, poll_vars, ret>>

\* TimeTracker.start after the loops of the previous run have ended: with
\* running false it clears the event and starts two new threads, with
\* running true it does nothing
tracker_start ==
    /\ phase = "run" /\ stop_pc \in {"idle", "returned"} /\ ui_wait = "none"
    /\ track_pc = "done" /\ autosave_pc = "done"
    /\ IF running
       THEN UNCHANGED <<running, stop_vars, track_pc, autosave_pc, autosave_wake, ret>>
       ELSE /\ running' = TRUE
            /\ shutdown_event' = FALSE
            /\ track_handle' = TRUE /\ autosave_handle' = TRUE
            /\ track_pc' = "check" /\ autosave_pc' = "wait"
            /\ autosave_wake' = now
            /\ stop_pc' = "idle" /\ stop_log' = << >>
            /\ ret' = [ret EXCEPT !["ui"] = [NoRet EXCEPT !.op = "start", !.since = now,
                                                          !.value = <<ret["ui"].since>>]]
    /\ UNCHANGED <<store_vars, now, today, thread_vars, phase, load_raised, hist_vars,
                   selected_vn_title, selected_process, last_start, afk_threshold,
                   current_state, last_save_time, active_process, idle_time,
                   is_process_active, current_seconds, tick_hist, run_vars,
                   data_lock, ui_wait, notify_vars, emerg_vars, lk_vars, poll_vars>>

\* a second passes while the tracker is stopped
stopped_clock ==
    /\ phase = "run" /\ ~running /\ stop_pc = "returned"
    /\ track_pc = "done" /\ autosave_pc = "done"
    /\ now - t0 < MaxAdvance
    /\ now' = now + 1
    /\ UNCHANGED <<ext_vars, store_vars, today, thread_vars, phase, load_raised, hist_vars,
                   tracker_vars>>

\* stop: track_thread.stop(); safe_join_thread(track_thread, timeout=5.0)
\* returns, the thread finished or not; self.track_thread = None
stop_join_track ==
    /\ stop_pc = "join_track"
    /\ track_handle' = FALSE
    /\ stop_log' = Append(stop_log, IF track_pc = "done" THEN "joined" ELSE "abandoned")
    /\ stop_pc' = "join_autosave"
    /\ UNCHANGED <<store_vars, now, today, thread_vars, phase, load_raised, hist_vars,
                   tracker_vars, sync_vars, notify_vars, shutdown_event,
                   autosave_handle, emerg_vars, lk_vars, poll_vars, ret>>

\* stop: the same for autosave_thread, and the return
stop_join_autosave ==
    /\ stop_pc = "join_autosave"
    /\ autosave_handle' = FALSE
    /\ stop_log' = Append(stop_log, IF autosave_pc = "done" THEN "joined" ELSE "abandoned")
    /\ stop_pc' = "returned"
    /\ ret' = [ret EXCEPT !["ui"] = [NoRet EXCEPT !.op = "stop", !.since = now]]
    /\ UNCHANGED <<store_vars, now, today, thread_vars, phase, load_raised, hist_vars,
                   tracker_vars, sync_vars, notify_vars, shutdown_event,
                   track_handle, emerg_vars, lk_vars, poll_vars>>

\* the tracker calls the UI thread makes under _data_lock
UiCalls == {"set_target", "set_afk_threshold", "get_current_seconds", "stop_tracking"}

\* the UI thread enters "with self._data_lock" while another thread holds the
\* lock: it waits, with no timeout
ui_block(op) ==
    /\ phase = "run" /\ ui_ops < MaxUiOps
    /\ ui_wait = "none" /\ stop_pc \in {"idle", "returned"}
    /\ data_lock \notin {NoThread, "ui"}
    /\ ui_wait' = op
    /\ UNCHANGED <<store_vars, now, today, thread_vars, phase, load_raised, hist_vars,
                   tracker_vars, data_lock, autosave_pc, notify_vars, stop_vars,
                   emerg_vars, lk_vars, poll_vars, ret>>

\* TimeTracker.get_current_seconds called from the UI thread's timers
ui_get_current_seconds ==
    /\ phase = "run" /\ ui_ops < MaxUiOps /\ data_lock = NoThread
    /\ ui_wait \in {"none", "get_current_seconds"} /\ ui_wait' = "none"
    /\ ui_ops' = ui_ops + 1
    /\ UNCHANGED <<store_vars, now, today, thread_vars, phase, load_raised, hist_vars,
                   session_vars, loop_vars, tick_hist, env_mode, t0, data_lock,
                   autosave_pc, notify_vars, stop_vars, emerg_vars, lk_vars, poll_vars, ret>>

\* _autosave_loop: self._data_lock.acquire(timeout=5.0) returns False: log,
\* sleep 5 s, next iteration
autosave_lock_timeout ==
    /\ phase = "run" /\ running /\ autosave_pc = "wait" /\ now >= autosave_wake
    /\ data_lock # NoThread
    /\ autosave_wake' = now + AutosaveRetry
    /\ UNCHANGED <<store_vars, now, today, thread_vars, phase, load_raised, hist_vars,
                   session_vars, track_pc, active_process, idle_time,
                   is_process_active, current_seconds, tick_hist, run_vars, ext_vars>>

\* TimeTracker.emergency_save with no I/O failure: under _data_lock the
\* elapsed seconds of the open session go to the ledger (last_start is not
\* assigned), then data_manager.emergency_save() saves with force_backup
emergency_save ==
    /\ phase = "run" /\ ui_ops < MaxUiOps
    /\ data_lock = NoThread /\ store_lock = NoThread /\ ui_wait = "none"
    /\ ui_ops' = ui_ops + 1
    /\ LET flush == Truthy(selected_vn_title) /\ last_start # NoTime
           st == IF flush
                 THEN add_time([data |-> data, pending |-> pending_changes],
                               selected_vn_title, now - last_start)
                 ELSE [data |-> data, pending |-> pending_changes]
           f == saved(st.data, st.pending, TRUE)
       IN  /\ data' = st.data
           /\ pending_changes' = FALSE
           /\ log_file' = f.log
           /\ backup_file' = f.backup
           /\ last_flush' = IF flush
                            THEN [by |-> "emergency_save", vn |-> selected_vn_title,
                                  elapsed |-> now - last_start]
                            ELSE last_flush
    /\ ret' = [ret EXCEPT !["ui"] =
                 [NoRet EXCEPT !.op = "emergency_save", !.pre = StoreNow,
                               !.result = "ok"]]
    /\ UNCHANGED <<ext_rest, store_lock, temp_file, now, today, thread_vars, phase,
                   load_raised, hist_vars, session_vars, loop_vars, tick_binding,
                   session_target, active_sum, entered_at, env_mode, t0>>

\* TimeTracker.reset_today, first half, on the UI thread and without
\* _data_lock: if self.selected_vn_title: data_manager.reset_today(title)
\* zeroes today's entry under the store's lock
reset_today ==
    /\ phase = "run" /\ ui_ops < MaxUiOps /\ pc["ui"] = "idle"
    /\ store_lock = NoThread
    /\ ui_ops' = ui_ops + 1
    /\ IF ~Truthy(selected_vn_title)
       THEN /\ ret' = [ret EXCEPT !["ui"] =
                         [NoRet EXCEPT !.op = "reset_today", !.result = "skipped"]]
            /\ UNCHANGED <<data, pending_changes, pc>>
       ELSE /\ data' = LedgerSet(SetDefault(data, selected_vn_title),
                                 selected_vn_title, today, 0)
            /\ pending_changes' = TRUE
            /\ pc' = [pc EXCEPT !["ui"] = "reset_clear"]
            /\ ret' = [ret EXCEPT !["ui"] =
                         [NoRet EXCEPT !.op = "reset_today", !.vn = selected_vn_title,
                                       !.pre = StoreNow, !.since = now]]
    /\ UNCHANGED <<ext_rest, store_lock, log_file, backup_file, temp_file, now, today,
                   frame, phase, load_raised, hist_vars, session_vars, loop_vars,
                   tick_hist, env_mode, t0>>

\* TimeTracker.reset_today, second half: self.last_start = None, and return
reset_today_clear ==
    /\ phase = "run" /\ pc["ui"] = "reset_clear"
    /\ last_start' = NoTime
    /\ pc' = [pc EXCEPT !["ui"] = "idle"]
    /\ ret' = [ret EXCEPT !["ui"].result = "ok"]
    /\ UNCHANGED <<ext_rest, store_vars, now, today, frame, phase, load_raised, hist_vars,
                   selected_vn_title, selected_process, afk_threshold, current_state,
                   last_save_time, running, loop_vars, tick_hist, run_vars>>

\* --------------------------------------------- the locking skeleton
\* Each routine below is the sequence of lock operations and observer calls one
\* routine of the program performs: an acquire names its lock, whether it has
\* a timeout and the step the routine continues with when the timeout expires.
LkThreads == {"track", "autosave", "refresh", "ui"}
LkIdle == [r |-> "idle", i |-> 0]
Acq(l, timed, fail) == [op |-> "acq", lock |-> l, timed |-> timed, fail |-> fail]
Rel(l) == [op |-> "rel", lock |-> l, timed |-> FALSE, fail |-> 0]
Cb(who) == [op |-> "cb", lock |-> who, timed |-> FALSE, fail |-> 0]

\* _track_loop, one iteration that flushes: _data_lock, add_time, callbacks
R_tick ==
    <<Acq("data", TRUE, 6), Acq("store", TRUE, 4), Rel("store"), Rel("data"),
      Cb("state")>>

\* _autosave_loop, one iteration: _data_lock, save
R_autosave ==
    <<Acq("data", TRUE, 5), Acq("store", TRUE, 4), Rel("store"), Rel("data")>>

\* ProcessMonitor._update_process_list: _lock, the observers, the release
R_update_process_list ==
    <<Acq("pm", TRUE, 4), Cb("process_list"), Rel("pm")>>

\* ProcessMonitor.get_process_list
R_get_process_list == <<Acq("pm", FALSE, 0), Rel("pm")>>

\* set_target taking the store lock first and the session lock inside it
R_set_target_reversed ==
    <<Acq("store", TRUE, 5), Acq("data", FALSE, 0), Rel("data"), Rel("store")>>

\* TimeTracker.set_target: with _data_lock, add_time through safe_call
R_set_target ==
    <<Acq("data", FALSE, 0), Acq("store", TRUE, 4), Rel("store"), Rel("data")>>

\* TimeTracker.get_current_seconds
R_get_current_seconds == <<Acq("data", FALSE, 0), Rel("data")>>

\* TimeTracker.reset_today -> TimeDataManager.reset_today: with self._lock
R_reset_today == <<Acq("store", FALSE, 0), Rel("store")>>

\* TimeTracker.stop: _data_lock with a timeout, add_time and save under it,
\* or emergency_save (save with its timeout) without it
R_stop ==
    <<Acq("data", TRUE, 7), Acq("store", TRUE, 4), Rel("store"),
      Acq("store", TRUE, 6), Rel("store"), Rel("data"),
      Acq("store", TRUE, 9), Rel("store")>>

\* a stop that got the lock is done after its release
StopLockedEnd == 6

\* TimeTracker.emergency_save: with _data_lock, add_time, then
\* data_manager.emergency_save -> save
R_emergency_save ==
    <<Acq("data", FALSE, 0), Acq("store", TRUE, 6), Rel("store"),
      Acq("store", TRUE, 6), Rel("store"), Rel("data")>>

\* TimeDataManager.emergency_save called on its own
R_store_emergency_save == <<Acq("store", TRUE, 3), Rel("store")>>

Routine(r) ==
    CASE r = "tick" -> R_tick
      [] r = "autosave" -> R_autosave
      [] r = "update_process_list" -> R_update_process_list
      [] r = "get_process_list" -> R_get_process_list
      [] r = "set_target" -> R_set_target
      [] r = "get_current_seconds" -> R_get_current_seconds
      [] r = "reset_today" -> R_reset_today
      [] r = "stop" -> R_stop
      [] r = "emergency_save" -> R_emergency_save
      [] r = "store_emergency_save" -> R_store_emergency_save
      [] OTHER -> << >>

\* the routines each thread runs
RoutinesOf(th) ==
    CASE th = "track" -> {"tick"}
      [] th = "autosave" -> {"autosave"}
      [] th = "refresh" -> {"update_process_list"}
      [] OTHER -> {"set_target", "get_current_seconds", "reset_today", "stop",
                   "emergency_save", "store_emergency_save", "get_process_list",
                   "update_process_list"}

LkHolder(l) ==
    IF l = "data" THEN data_lock ELSE IF l = "store" THEN store_lock ELSE pm_lock

\* the step thread th is at, if it is inside a routine
LkAt(th) == lk[th].r # "idle" /\ lk[th].i <= Len(Routine(lk[th].r))
LkStep(th) == Routine(lk[th].r)[lk[th].i]

\* th is at an acquire it cannot take now
LkWaiting(th) ==
    LkAt(th) /\ LkStep(th).op = "acq" /\ LkHolder(LkStep(th).lock) # NoThread

\* everything but the locks and the skeleton
lk_rest == <<data, pending_changes, log_file, backup_file, temp_file, now, today,
             thread_vars, phase, load_raised, hist_vars, tracker_vars, ui_wait,
             autosave_pc, notify_vars, stop_vars, emerg_vars, poll_vars, ret>>

lk_set_lock(l, h) ==
    /\ data_lock' = IF l = "data" THEN h ELSE data_lock
    /\ store_lock' = IF l = "store" THEN h ELSE store_lock
    /\ pm_lock' = IF l = "pm" THEN h ELSE pm_lock

\* a thread enters one of its routines
lk_start(th, r) ==
    /\ lk[th].r = "idle" /\ r \in RoutinesOf(th)
    /\ lk' = [lk EXCEPT ![th] = [r |-> r, i |-> 1]]
    /\ UNCHANGED <<data_lock, store_lock, pm_lock, lk_rest>>

\* acquire returns with the lock
lk_acquire(th) ==
    /\ LkAt(th) /\ LkStep(th).op = "acq"
    /\ LkHolder(LkStep(th).lock) = NoThread
    /\ lk_set_lock(LkStep(th).lock, th)
    /\ UNCHANGED lk_rest
    /\ lk' = [lk EXCEPT ![th].i = @ + 1]

\* acquire(timeout=...) returns False
lk_timeout(th) ==
    /\ LkWaiting(th) /\ LkStep(th).timed
    /\ lk' = [lk EXCEPT ![th].i = LkStep(th).fail]
    /\ UNCHANGED <<data_lock, store_lock, pm_lock, lk_rest>>

\* the critical section ends: release
lk_release(th) ==
    /\ LkAt(th) /\ LkStep(th).op = "rel"
    /\ lk_set_lock(LkStep(th).lock, NoThread)
    /\ UNCHANGED lk_rest
    /\ lk' = [lk EXCEPT ![th].i =
                 IF lk[th].r = "stop" /\ lk[th].i = StopLockedEnd
                 THEN Len(R_stop) + 1 ELSE @ + 1]

\* the observers are called and return
lk_callback(th) ==
    /\ LkAt(th) /\ LkStep(th).op = "cb"
    /\ lk' = [lk EXCEPT ![th].i = @ + 1]
    /\ UNCHANGED <<data_lock, store_lock, pm_lock, lk_rest>>

\* the routine returns
lk_return(th) ==
    /\ lk[th].r # "idle" /\ lk[th].i > Len(Routine(lk[th].r))
    /\ lk' = [lk EXCEPT ![th] = LkIdle]
    /\ UNCHANGED <<data_lock, store_lock, pm_lock, lk_rest>>

\* ------------------------------------------------- the loops' waits
\* Each background loop as the waits it performs: an iteration's body either
\* completes or raises into the loop's except branch; after it the loop
\* sleeps, and it looks at its stop signal only where the code does.  The
\* body itself takes no time here.
Loops == {"track", "autosave", "refresh"}
PollHorizon == 24            \* the clock stops here
LoopHorizon == 52            \* and here in the runs that see a loop give up
max_consecutive_errors == 5

\* fails and last are history: the passes in a row that did not do their
\* work, and how the last pass ended
NoWait == [at |-> "run", errors |-> 0, from |-> 0, since |-> 0, until |-> 0,
           fails |-> 0, last |-> "none"]
MaxFails == 6                \* fails is counted up to here

\* the period of a loop: time.sleep(1); < 30.0; refresh_interval = 120
PollPeriod(l) == IF l = "track" THEN 1 ELSE IF l = "autosave" THEN 30 ELSE 120

\* one sleep inside the period: time.sleep(1), time.sleep(1.0), time.sleep(5.0)
PollSleep(l) == IF l = "refresh" THEN 5 ELSE 1

RECURSIVE Pow2(_)
Pow2(n) == IF n <= 0 THEN 1 ELSE 2 * Pow2(n - 1)

Least(a, b) == IF a < b THEN a ELSE b

\* sleep_time = min(1.0 * (2 ** (consecutive_errors - 1)), 10.0) in the
\* tracking loop, min(10.0 * (2 ** (consecutive_errors - 1)), 60.0) in the
\* autosave and refresh loops
Backoff(l, n) ==
    IF l = "track" THEN Least(Pow2(n - 1), 10) ELSE Least(10 * Pow2(n - 1), 60)

\* a loop that also leaves when one of the other loops has ended
StopSeen_any(l) ==
    \/ IF l = "track" THEN ~running ELSE ~running \/ shutdown_event
    \/ \E o \in Loops \ {l} : poll[o].at = "done"

\* what the loop's checks read: self.running in the tracking loop, running
\* and _shutdown_event in the other two
StopSeen(l) == IF l = "track" THEN ~running ELSE ~running \/ shutdown_event

loop_rest ==
    <<store_vars, today, thread_vars, phase, load_raised, hist_vars, selected_vn_title,
      selected_process, last_start, afk_threshold, current_state, last_save_time,
      loop_vars, tick_hist, run_vars, sync_vars, notify_vars, stop_pc, stop_log,
      track_handle, autosave_handle, emerg_vars, lk_vars>>
mon_rest == <<loop_rest, stale>>
poll_rest == <<mon_rest, mon>>


\* no abandoned thread
NoStale == [at |-> "none", errors |-> 0, from |-> 0, since |-> 0, until |-> 0,
            fails |-> 0, last |-> "none"]

\* one pass through the loop's try block: it completes and the loop starts
\* its sleep, or it raises and the except branch counts the error and sleeps
\* sleep_time in one call
poll_iterate(l, ok) ==
    /\ phase = "run" /\ poll[l].at = "run"
    /\ ~StopSeen(l) /\ poll[l].errors < max_consecutive_errors
    /\ poll' = [poll EXCEPT ![l] =
                  IF ok
                  THEN [at |-> "wait", errors |-> 0, from |-> now, since |-> now,
                        until |-> now + PollSleep(l), fails |-> 0, last |-> "ok"]
                  ELSE IF poll[l].errors + 1 < max_consecutive_errors
                  THEN [at |-> "backoff", errors |-> poll[l].errors + 1, from |-> now,
                        since |-> now, until |-> now + Backoff(l, poll[l].errors + 1),
                        fails |-> Least(poll[l].fails + 1, MaxFails), last |-> "raise"]
                  ELSE [NoWait EXCEPT !.errors = poll[l].errors + 1,
                                      !.fails = Least(poll[l].fails + 1, MaxFails),
                                      !.last = "raise"]]
    /\ UNCHANGED <<poll_rest, now, running, shutdown_event, ret>>

\* acquire(timeout=2.0) of the tracking loop, acquire(timeout=5.0) of autosave
LoopLockTimeout(l) == IF l = "track" THEN 2 ELSE 5

\* the sleep after a lock timeout: time.sleep(2.0), time.sleep(5.0)
LoopLockRetry(l) == IF l = "track" THEN 2 ELSE 5

\* How one pass through a loop's try block can end.  The tracking loop with
\* nothing bound sleeps and continues ("idle"); otherwise its pass completes,
\* fails to get _data_lock in time, or raises.  In the autosave loop a save
\* that raises is caught by safe_call ("save_failed"); in the refresh loop an
\* enumeration that raises is caught inside _update_process_list
\* ("enum_failed").
PassOutcomes(l) ==
    IF l = "track"
    THEN IF ~Truthy(selected_process) \/ ~Truthy(selected_vn_title)
         THEN {"idle"} ELSE {"ok", "timeout", "raise"}
    ELSE IF l = "autosave" THEN {"ok", "save_failed", "timeout", "raise"}
    ELSE {"ok", "enum_failed", "raise"}

\* a pass in which the loop did what it is there for
PassWorked(o) == o \in {"ok", "idle"}

\* consecutive_errors after the pass: += 1 on a lock timeout and in the except
\* branch, = 0 at the end of the try block, untouched by the idle continue
ErrorsAfter(l, o) ==
    IF o \in {"timeout", "raise"} THEN poll[l].errors + 1
    ELSE IF o = "idle" THEN poll[l].errors
    ELSE 0

\* one pass through the loop's try block with outcome o, up to the sleep
\* that follows it
poll_pass(l, o) ==
    /\ phase = "run" /\ poll[l].at = "run"
    /\ ~StopSeen(l) /\ poll[l].errors < max_consecutive_errors
    /\ o \in PassOutcomes(l)
    /\ LET n == ErrorsAfter(l, o)
           f == IF PassWorked(o) THEN 0 ELSE Least(poll[l].fails + 1, MaxFails)
       IN  poll' = [poll EXCEPT ![l] =
                IF n <= poll[l].errors
                THEN [at |-> "wait", errors |-> n, from |-> now, since |-> now,
                      until |-> now + PollSleep(l), fails |-> f, last |-> o]
                ELSE IF o = "timeout"
                THEN [at |-> "backoff", errors |-> n, from |-> now, since |-> now,
                      until |-> now + LoopLockTimeout(l) + LoopLockRetry(l),
                      fails |-> f, last |-> o]
                ELSE IF n < max_consecutive_errors
                THEN [at |-> "backoff", errors |-> n, from |-> now, since |-> now,
                      until |-> now + Backoff(l, n), fails |-> f, last |-> o]
                ELSE [at |-> "run", errors |-> n, from |-> now, since |-> now,
                      until |-> now, fails |-> f, last |-> o]]
    /\ current_state' = IF o = "idle" THEN "INACTIVE" ELSE current_state
    /\ UNCHANGED <<store_vars, today, thread_vars, phase, load_raised, hist_vars,
                   selected_vn_title, selected_process, last_start, afk_threshold,
                   last_save_time, loop_vars, tick_hist, run_vars, sync_vars,
                   notify_vars, stop_pc, stop_log, track_handle, autosave_handle,
                   emerg_vars, lk_vars, mon, stale, now, running, shutdown_event, ret>>

\* a sleep ends: the polling wait checks the signal and sleeps again until
\* the period is over; a backoff returns to the loop's condition
poll_wake(l) ==
    /\ phase = "run" /\ poll[l].at \in {"wait", "backoff"} /\ now >= poll[l].until
    /\ poll' = [poll EXCEPT ![l] =
                  IF poll[l].at = "backoff" \/ now - poll[l].from >= PollPeriod(l)
                  THEN [@ EXCEPT !.at = "run"]
                  ELSE IF StopSeen(l)
                  THEN [@ EXCEPT !.at = "done"]
                  ELSE [@ EXCEPT !.since = now, !.until = now + PollSleep(l)]]
    /\ UNCHANGED <<poll_rest, now, running, shutdown_event, ret>>

\* the loop's while condition fails: the thread ends
poll_exit(l) ==
    /\ phase = "run" /\ poll[l].at = "run"
    /\ StopSeen(l) \/ poll[l].errors >= max_consecutive_errors
    /\ poll' = [poll EXCEPT ![l].at = "done"]
    /\ UNCHANGED <<poll_rest, now, running, shutdown_event, ret>>

\* a second passes while every loop that still runs is asleep
poll_clock ==
    /\ phase = "run"
    /\ now < (IF env_mode = "long" THEN LoopHorizon ELSE PollHorizon)
    /\ \A l \in Loops :
          poll[l].at = "done" \/ (poll[l].at \in {"wait", "backoff"} /\ now < poll[l].until)
    /\ \A l \in Loops :
          stale[l].at \in {"none", "done"}
              \/ (stale[l].at \in {"wait", "backoff"} /\ now < stale[l].until)
    /\ \E l \in Loops : poll[l].at # "done" \/ stale[l].at \notin {"none", "done"}
    /\ now' = now + 1
    /\ UNCHANGED <<poll_rest, poll, running, shutdown_event, ret>>

\* shutdown is requested: the signals the loops poll are set
\* (TimeTracker.stop, ProcessMonitor.stop)
poll_stop ==
    /\ phase = "run" /\ running /\ ~shutdown_event
    /\ shutdown_event' = TRUE
    /\ running' = FALSE
    /\ ret' = [ret EXCEPT !["ui"] = [NoRet EXCEPT !.op = "stop", !.since = now]]
    /\ UNCHANGED <<poll_rest, poll, now>>

\* ---------------------------------------------- stop(), start(), old threads
\* safe_join_thread(self.track_thread, timeout=5.0), and the same for autosave
ThreadJoinTimeout == 5

\* stop() after its request: the join of the tracking thread ends, the thread
\* finished or 5 s over
poll_join_track ==
    /\ phase = "run" /\ ret["ui"].op = "stop"
    /\ poll["track"].at = "done" \/ now - ret["ui"].since >= ThreadJoinTimeout
    /\ ret' = [ret EXCEPT !["ui"] = [@ EXCEPT !.op = "join", !.since = now]]
    /\ UNCHANGED <<poll_rest, poll, now, running, shutdown_event>>

\* the join of the autosave thread ends, and stop() returns
poll_join_autosave ==
    /\ phase = "run" /\ ret["ui"].op = "join"
    /\ poll["autosave"].at = "done" \/ now - ret["ui"].since >= ThreadJoinTimeout
    /\ ret' = [ret EXCEPT !["ui"] = [@ EXCEPT !.op = "stopped", !.since = now]]
    /\ UNCHANGED <<poll_rest, poll, now, running, shutdown_event>>

\* a loop of the tracker whose thread an earlier stop() left behind alive
Abandoned(l) == l \in {"track", "autosave"} /\ poll[l].at # "done"

\* start(): if not self.running: running = True, the event is cleared and
\* two new threads are started; a thread the last stop() abandoned is still
\* there (a start() is followed while no thread has been left behind yet)
poll_start ==
    /\ phase = "run" /\ ret["ui"].op \notin {"stop", "join"}
    /\ IF running
       THEN UNCHANGED <<running, shutdown_event, poll, stale, ret>>
       ELSE /\ \A l \in Loops : stale[l].at = "none"
            /\ running' = TRUE
            /\ shutdown_event' = FALSE
            /\ stale' = [l \in Loops |-> IF Abandoned(l) THEN poll[l] ELSE stale[l]]
            /\ poll' = [l \in Loops |-> IF l = "refresh" THEN poll[l] ELSE NoWait]
            /\ ret' = [ret EXCEPT !["ui"] = [NoRet EXCEPT !.op = "start", !.since = now]]
    /\ UNCHANGED <<loop_rest, mon, now>>

\* a step of an abandoned thread: its sleep ends, or it evaluates its loop's
\* condition and either leaves or makes another pass
stale_step(l) ==
    /\ phase = "run" /\ stale[l].at \in {"run", "wait", "backoff"}
    /\ stale[l].at \in {"wait", "backoff"} => now >= stale[l].until
    /\ stale' = [stale EXCEPT ![l] =
                   IF @.at = "run"
                   THEN IF StopSeen(l) \/ @.errors >= max_consecutive_errors
                        THEN [@ EXCEPT !.at = "done"]
                        ELSE [at |-> "wait", errors |-> 0, from |-> now, since |-> now,
                              until |-> now + PollSleep(l), fails |-> 0,
                              last |-> "resumed"]
                   ELSE IF @.at = "backoff" \/ now - @.from >= PollPeriod(l)
                   THEN [@ EXCEPT !.at = "run"]
                   ELSE IF StopSeen(l)
                   THEN [@ EXCEPT !.at = "done"]
                   ELSE [@ EXCEPT !.since = now, !.until = now + PollSleep(l)]]
    /\ UNCHANGED <<loop_rest, mon, poll, now, running, shutdown_event, ret>>

\* ------------------------------------------------------- ProcessMonitor
\* The process names the OS may report, and a name an observer writes into
\* the list it was handed.  get_running_processes returns sorted(list(names))
\* of a set, so a list is the set of its names.
Procs == {"game.exe"}
Junk == "junk"
MonThreads == {"refresh", "ui"}
MonHorizon == 605            \* the clock of the long refresh runs stops here
JoinTimeout == 3             \* safe_join_thread(self.refresh_thread, timeout=3.0)

\* no _update_process_list call in progress
NoUpdate == [pc |-> "idle", new |-> {}]

\* ProcessMonitor.__init__; os is what the OS would enumerate now; handed,
\* aliased and calls describe the observers' side: the list they were handed
\* last, whether it is the stored list object itself, and how often they
\* were called; ui, join_until and ops belong to the caller; asked (stop()
\* has been called), restarted (the last start() followed a stop()) and
\* stopping (stop() has been called since the last start()) are history
MonitorInit ==
    [running |-> TRUE, shutdown |-> FALSE, thread |-> "none", process_list |-> {},
     os |-> {}, handed |-> {}, aliased |-> FALSE, calls |-> 0,
     upd |-> [th \in MonThreads |-> NoUpdate],
     ui |-> "idle", join_until |-> 0, ops |-> 0,
     asked |-> FALSE, restarted |-> FALSE, stopping |-> FALSE]

\* the observers are handed the stored list itself
HandedAlias_same == TRUE

\* process_copy = self.process_list.copy(): the observers get another object
HandedAlias == FALSE

\* the update notifies on every refresh
ListDiffers_always(new, old) == TRUE

\* new_list != self.process_list
ListDiffers(new, old) == new # old

\* the loop's checks: self.running and self._shutdown_event
MonStopSeen == ~mon.running \/ mon.shutdown

\* a process starts or ends
os_change(s) ==
    /\ phase = "run" /\ s \in SUBSET Procs /\ s # mon.os
    /\ mon' = [mon EXCEPT !.os = s]
    /\ UNCHANGED <<mon_rest, poll, now, running, shutdown_event, ret>>

\* new_list = get_running_processes() in the call of thread th: it returns
\* the OS's list, or raises and the except branch of _update_process_list
\* prints and returns
EnumerateIn(m, th, ok) ==
    [m EXCEPT !.upd[th] = IF ok THEN [pc |-> "enumerated", new |-> m.os] ELSE NoUpdate]

\* start(): a thread is created when there is none alive, then the list is
\* loaded once by the caller
monitor_start(ok) ==
    /\ phase = "run" /\ mon.ui = "idle" /\ mon.upd["ui"].pc = "idle"
    /\ mon.ops < MaxUiOps
    /\ IF mon.thread # "alive"
       THEN /\ mon' = EnumerateIn([mon EXCEPT !.running = TRUE, !.thread = "alive",
                                              !.ops = @ + 1, !.stopping = FALSE,
                                              !.restarted = mon.asked], "ui", ok)
            /\ poll' = [poll EXCEPT !["refresh"] = NoWait]
       ELSE UNCHANGED <<mon, poll>>
    /\ UNCHANGED <<mon_rest, now, running, shutdown_event, ret>>

\* stop() up to the join
monitor_stop ==
    /\ phase = "run" /\ mon.ui = "idle" /\ mon.upd["ui"].pc = "idle"
    /\ mon.ops < MaxUiOps
    /\ mon' = [mon EXCEPT !.running = FALSE, !.shutdown = TRUE, !.ops = @ + 1,
                          !.asked = TRUE, !.stopping = TRUE,
                          !.ui = IF mon.thread = "alive" THEN "join" ELSE "idle",
                          !.join_until = now + JoinTimeout]
    /\ UNCHANGED <<mon_rest, poll, now, running, shutdown_event, ret>>

\* the join returns: the thread has ended or 3 s have passed
monitor_stop_return ==
    /\ phase = "run" /\ mon.ui = "join"
    /\ mon.thread # "alive" \/ now >= mon.join_until
    /\ mon' = [mon EXCEPT !.ui = "idle"]
    /\ UNCHANGED <<mon_rest, poll, now, running, shutdown_event, ret>>

\* refresh_process_list(): the forced refresh of the caller
refresh_process_list(ok) ==
    /\ phase = "run" /\ mon.ui = "idle" /\ mon.upd["ui"].pc = "idle"
    /\ mon.ops < MaxUiOps
    /\ mon' = EnumerateIn([mon EXCEPT !.ops = @ + 1], "ui", ok)
    /\ UNCHANGED <<mon_rest, poll, now, running, shutdown_event, ret>>

\* the refresh loop's while condition and, when it holds, the pass up to the
\* enumeration; consecutive_errors = 0 follows a call that returned, whether
\* or not it enumerated
refresh_loop_pass(ok) ==
    /\ phase = "run" /\ mon.thread = "alive" /\ mon.upd["refresh"].pc = "idle"
    /\ poll["refresh"].at = "run"
    /\ IF MonStopSeen \/ poll["refresh"].errors >= max_consecutive_errors
       THEN /\ mon' = [mon EXCEPT !.thread = "dead"]
            /\ poll' = [poll EXCEPT !["refresh"].at = "done"]
       ELSE /\ mon' = EnumerateIn(mon, "refresh", ok)
            /\ poll' = [poll EXCEPT !["refresh"] =
                          IF ok THEN [@ EXCEPT !.at = "update"]
                          ELSE [at |-> "wait", errors |-> 0, from |-> now, since |-> now,
                                until |-> now + PollSleep("refresh"),
                                fails |-> Least(@.fails + 1, MaxFails),
                                last |-> "enum_failed"]]
    /\ UNCHANGED <<mon_rest, now, running, shutdown_event, ret>>

\* _update_process_list under self._lock: compare, store, call the observers.
\* The observers return at once (the registered one emits a queued signal),
\* so no caller waits the 2 s of acquire(timeout=2.0) for the lock.
update_commit(th) ==
    /\ phase = "run" /\ mon.upd[th].pc = "enumerated"
    /\ LET new == mon.upd[th].new
           differs == ListDiffers(new, mon.process_list)
       IN  mon' = [mon EXCEPT !.upd[th] = NoUpdate,
                              !.process_list = IF differs THEN new ELSE @,
                              !.handed = IF differs THEN new ELSE @,
                              !.aliased = IF differs THEN HandedAlias ELSE FALSE,
                              !.calls = IF differs THEN @ + 1 ELSE @]
    /\ poll' = IF th = "refresh"
               THEN [poll EXCEPT !["refresh"] =
                        [at |-> "wait", errors |-> 0, from |-> now, since |-> now,
                         until |-> now + PollSleep("refresh"), fails |-> 0, last |-> "ok"]]
               ELSE poll
    /\ UNCHANGED <<mon_rest, now, running, shutdown_event, ret>>

\* an observer writes into the list it was handed
observer_mutate ==
    /\ phase = "run" /\ mon.calls > 0 /\ Junk \notin mon.handed
    /\ mon' = [mon EXCEPT !.handed = @ \cup {Junk},
                          !.process_list = IF mon.aliased THEN @ \cup {Junk} ELSE @]
    /\ UNCHANGED <<mon_rest, poll, now, running, shutdown_event, ret>>

\* time.sleep(5.0) of the refresh loop's wait ends: the loop returns on the
\* stop signal, starts the next pass after refresh_interval, or sleeps again
refresh_wake ==
    /\ phase = "run" /\ mon.thread = "alive"
    /\ poll["refresh"].at = "wait" /\ now >= poll["refresh"].until
    /\ IF now - poll["refresh"].from >= PollPeriod("refresh")
       THEN mon' = mon /\ poll' = [poll EXCEPT !["refresh"].at = "run"]
       ELSE IF MonStopSeen
       THEN /\ mon' = [mon EXCEPT !.thread = "dead"]
            /\ poll' = [poll EXCEPT !["refresh"].at = "done"]
       ELSE /\ mon' = mon
            /\ poll' = [poll EXCEPT !["refresh"].since = now,
                                    !["refresh"].until = now + PollSleep("refresh")]
    /\ UNCHANGED <<mon_rest, now, running, shutdown_event, ret>>

\* the times at which something asleep wakes up
MonWakes ==
    (IF mon.thread = "alive" THEN {poll["refresh"].until} ELSE {})
        \cup (IF mon.ui = "join" THEN {mon.join_until} ELSE {})

\* time passes until the next sleep ends; the monitor is started when the
\* window is set up, before any time has passed
monitor_clock ==
    /\ phase = "run" /\ mon.thread # "none"
    /\ now < (IF env_mode = "long" THEN MonHorizon ELSE PollHorizon)
    /\ \A th \in MonThreads : mon.upd[th].pc = "idle"
    /\ mon.thread = "alive" => poll["refresh"].at = "wait"
    /\ \A w \in MonWakes : now < w
    /\ now' = IF MonWakes = {} THEN now + 1
              ELSE CHOOSE w \in MonWakes : \A v \in MonWakes : w <= v
    /\ UNCHANGED <<mon_rest, poll, mon, running, shutdown_event, ret>>

\* TimeTracker.__init__ at time t, then start() if started, with a target if
\* one has been set
TrackerInit(t, vn, proc, started) ==
    /\ selected_vn_title = vn /\ selected_process = proc
    /\ last_start = NoTime
    /\ afk_threshold = DefaultAfkThreshold
    /\ current_state = "INACTIVE"
    /\ last_save_time = t
    /\ running = started
    /\ track_handle = started /\ autosave_handle = started
    /\ track_pc = "check"
    /\ active_process = None /\ idle_time = 0 /\ is_process_active = FALSE
    /\ current_seconds = 0
    /\ autosave_wake = t
    /\ tick_binding = <<None, None>> /\ session_target = None
    /\ active_sum = 0 /\ entered_at = NoTime /\ last_flush = NoFlush
    /\ ui_ops = 0 /\ t0 = t

\* nothing has been handed to the observers yet
NoNotify == [state |-> "none", seconds |-> 0]

\* the locks are free, the loops at their start, no observer called yet
ExtInit ==
    /\ data_lock = NoThread /\ ui_wait = "none" /\ autosave_pc = "wait"
    /\ notified = NoNotify /\ cb_held = {} /\ tick_pair = NoNotify
    /\ shutdown_event = FALSE /\ stop_pc = "idle" /\ stop_log = << >>
    /\ emergency_file = Absent /\ text_file = Absent
    /\ lk = [th \in LkThreads |-> LkIdle] /\ pm_lock = NoThread
    /\ poll = [l \in Loops |-> NoWait]
    /\ mon = MonitorInit
    /\ stale = [l \in Loops |-> NoStale]
    /\ ret = [th \in Threads |-> NoRet]

\* the same after a restart of the process
ExtRestart ==
    /\ data_lock' = NoThread /\ ui_wait' = "none" /\ autosave_pc' = "wait"
    /\ notified' = NoNotify /\ cb_held' = {} /\ tick_pair' = NoNotify
    /\ shutdown_event' = FALSE /\ stop_pc' = "idle" /\ stop_log' = << >>
    /\ track_handle' = running /\ autosave_handle' = running
    /\ ret' = [th \in Threads |-> NoRet]
    /\ UNCHANGED <<emerg_vars, lk_vars, poll_vars>>

\* The process is killed: memory and threads are gone, the files stay as they
\* are, and the next start constructs the store and the tracker again
\* (TimeDataManager.__init__ -> load, TimeTracker.__init__, start).
Kill ==
    /\ phase = "run" /\ kills < MaxKills
    /\ kills' = kills + 1
    /\ LET r == load_result(EmptyLedger, log_file, backup_file) IN
         /\ data' = r.data
         /\ load_raised' = r.raised
         /\ expected' = r.data
         /\ crash_rec' = [in_save |-> \E th \in Threads : pc[th] \in SaveWindow,
                          pre |-> save_pre, post |-> data, loaded |-> r.data,
                          active |-> (current_state = "ACTIVE" /\ last_start # NoTime),
                          accumulated |-> active_sum +
                              (IF current_state = "ACTIVE" THEN now - entered_at ELSE 0),
                          persisted |-> IF Truthy(selected_vn_title)
                                        THEN LedgerGet(r.data, selected_vn_title, today)
                                        ELSE 0]
    /\ pending_changes' = FALSE
    /\ store_lock' = NoThread
    /\ pc' = [th \in Threads |-> "idle"]
    /\ frame' = [th \in Threads |-> NoFrame]
    /\ contended' = FALSE
    /\ selected_vn_title' = None /\ selected_process' = None
    /\ last_start' = NoTime
    /\ current_state' = "INACTIVE"
    /\ last_save_time' = now
    /\ track_pc' = "check"
    /\ active_process' = None /\ idle_time' = 0 /\ is_process_active' = FALSE
    /\ current_seconds' = 0
    /\ autosave_wake' = now
    /\ tick_binding' = <<None, None>> /\ session_target' = None
    /\ active_sum' = 0 /\ entered_at' = NoTime /\ last_flush' = NoFlush
    /\ ExtRestart
    /\ UNCHANGED <<log_file, backup_file, temp_file, now, today, phase,
                   save_pre, ops, afk_threshold, running, run_vars>>

\* ---------------------------------------------------------- specifications
SeedLedger == ("A" :> (0 :> 1))
SomeLedgers == {EmptyLedger, SeedLedger, ("A" :> (0 :> 2)), ("B" :> (1 :> 1)),
                ("A" :> (0 :> 0)), ("A" :> (0 :> 1 @@ 1 :> 2) @@ "B" :> (0 :> 3))}
FileStates == {Absent, Corrupt} \cup {Json(L) : L \in SomeLedgers}

InitCommon ==
    /\ store_lock = NoThread /\ temp_file = Absent
    /\ ExtInit
    /\ pc = [th \in Threads |-> "idle"]
    /\ frame = [th \in Threads |-> NoFrame]
    /\ load_raised = FALSE
    /\ contended = FALSE /\ save_pre = EmptyLedger /\ crash_rec = NoCrash
    /\ ops = 0 /\ kills = 0
    /\ pending_changes = FALSE

\* SpecStore: threads calling add_time and save concurrently, and kills.  The
\* files a run starts from are ones an earlier run of the program left.
InitStore ==
    /\ InitCommon
    /\ phase = "run"
    /\ today = 1 /\ now = 1 /\ env_mode = "free"
    /\ TrackerInit(1, None, None, FALSE)
    /\ \E f \in {<<Absent, Absent>>, <<Json(SeedLedger), Json(EmptyLedger)>>} :
           log_file = f[1] /\ backup_file = f[2]
    /\ data = load_result(EmptyLedger, log_file, backup_file).data
    /\ expected = data

NextStore ==
    \/ \E th \in {"track", "ui"}, vn \in Titles \cup {""}, s \in SecondsArgs :
          add_time_call(th, vn, s, NoDate)
    \/ \E th \in Threads : add_time_acquire(th)
    \/ \E th \in Threads : add_time_timeout(th)
    \/ \E th \in Threads : add_time_read(th)
    \/ \E th \in Threads : add_time_write(th)
    \/ \E th \in {"autosave", "ui"}, force \in BOOLEAN : save_call(th, force)
    \/ \E th \in Threads : save_acquire(th)
    \/ \E th \in Threads : save_timeout(th)
    \/ \E th \in Threads : save_backup(th)
    \/ \E th \in Threads : save_backup_copy(th)
    \/ \E th \in Threads : save_temp_open(th)
    \/ \E th \in Threads : save_temp_dump(th)
    \/ \E th \in Threads : save_validate(th)
    \/ \E th \in Threads : save_replace(th)
    \/ \E th \in Threads : save_finish(th)
    \/ Kill

SpecStore == InitStore /\ [][NextStore]_vars

\* SpecLoad: the constructor's load() over every combination of primary and
\* backup file (absent, unparseable, or the JSON of a ledger).
InitLoad ==
    /\ InitCommon
    /\ phase = "ctor"
    /\ today \in Dates /\ now = 1 /\ env_mode = "free"
    /\ TrackerInit(1, None, None, FALSE)
    /\ log_file \in FileStates
    /\ backup_file \in FileStates
    /\ data = EmptyLedger
    /\ expected = EmptyLedger

NextLoad == load

SpecLoad == InitLoad /\ [][NextLoad]_vars

\* SpecTicks: the tracking loop and the autosave loop, one iteration per
\* second, with A bound to foo.exe from the start; the samples are free or
\* follow the scenario of the specification.
InitTicks ==
    /\ InitCommon
    /\ phase = "run"
    /\ today = 1 /\ now = 1
    /\ env_mode \in {"paced", "script"}
    /\ log_file = Absent /\ backup_file = Absent
    /\ data = EmptyLedger /\ expected = EmptyLedger
    /\ TrackerInit(1, "A", "foo.exe", TRUE)

NextTicks ==
    \/ track_check
    \/ \E fg \in Foregrounds, idle \in IdleSamples : track_sample(fg, idle)
    \/ track_acquire
    \/ track_locked
    \/ track_callbacks
    \/ autosave_begin
    \/ autosave
    \/ Advance

SpecTicks == InitTicks /\ [][NextTicks]_vars

\* SpecCrash: SpecTicks with free samples, and kills.
InitCrash == InitTicks /\ env_mode = "paced"

NextCrash == NextTicks \/ Kill

SpecCrash == InitCrash /\ [][NextCrash]_vars

\* Spec: the tracking loop against the UI thread's calls, the clock moving at
\* any point; the first state is StartDelay seconds after construction, no
\* target chosen yet.
Init ==
    /\ InitCommon
    /\ phase = "run"
    /\ today = 1 /\ now = 1 + StartDelay
    /\ env_mode = "free"
    /\ log_file = Absent /\ backup_file = Absent
    /\ data = EmptyLedger /\ expected = EmptyLedger
    /\ TrackerInit(1, None, None, TRUE)

Next ==
    \/ track_check
    \/ \E fg \in Foregrounds, idle \in IdleSamples : track_sample(fg, idle)
    \/ track_acquire
    \/ track_locked
    \/ track_callbacks
    \/ Advance
    \/ \E vn \in Titles, p \in ProcArgs : set_target(vn, p)
    \/ stop_tracking
    \/ \E s \in ThresholdArgs : set_afk_threshold(s)

Spec == Init /\ [][Next]_vars

\* SpecStop: the two loops with A bound to foo.exe, and stop() called from the
\* UI thread at any moment.  The steps of stop() are taken whenever they can be;
\* nothing makes a loop ever let go of the lock or finish.
InitStop ==
    /\ InitCommon
    /\ phase = "run"
    /\ today = 1 /\ now = 1
    /\ env_mode = "short"
    /\ log_file = Absent /\ backup_file = Absent
    /\ data = EmptyLedger /\ expected = EmptyLedger
    /\ TrackerInit(1, "A", "foo.exe", TRUE)

StopSteps ==
    \/ stop_acquire("ui") \/ stop_lock_timeout("ui")
    \/ stop_final_flush \/ stop_emergency \/ stop_clear_running
    \/ stop_join_track \/ stop_join_autosave

NextStop ==
    \/ track_check
    \/ \E fg \in Foregrounds, idle \in IdleSamples : track_sample(fg, idle)
    \/ track_acquire
    \/ track_lock_timeout
    \/ track_locked
    \/ track_callbacks
    \/ track_exit
    \/ autosave_begin
    \/ autosave
    \/ autosave_exit
    \/ Advance
    \/ stop_call
    \/ stop_acquire("ui")
    \/ stop_lock_timeout("ui")
    \/ stop_final_flush
    \/ stop_emergency
    \/ stop_clear_running
    \/ stop_join_track
    \/ stop_join_autosave

SpecStop == InitStop /\ [][NextStop]_vars /\ WF_vars(StopSteps)

\* SpecRestart: the same, and start() after a stop() that has returned and
\* whose loops have ended.
NextRestart ==
    \/ track_check
    \/ \E fg \in {"foo.exe", None} : track_sample(fg, 0)
    \/ track_acquire
    \/ track_lock_timeout
    \/ track_locked
    \/ track_callbacks
    \/ track_exit
    \/ autosave_begin
    \/ autosave
    \/ autosave_exit
    \/ Advance
    \/ stop_call
    \/ stop_acquire("ui")
    \/ stop_lock_timeout("ui")
    \/ stop_final_flush
    \/ stop_emergency
    \/ stop_clear_running
    \/ stop_join_track
    \/ stop_join_autosave
    \/ tracker_start
    \/ stopped_clock

SpecRestart == InitStop /\ [][NextRestart]_vars

\* SpecLocks: the two loops and the UI thread's calls on the tracker, each
\* lock taken and released in steps of its own, so that a thread can be seen
\* waiting for a lock another one holds.
InitLocks ==
    /\ InitCommon
    /\ phase = "run"
    /\ today = 1 /\ now = 1
    /\ env_mode = "short"
    /\ log_file = Absent /\ backup_file = Absent
    /\ data = EmptyLedger /\ expected = EmptyLedger
    /\ TrackerInit(1, "A", "foo.exe", TRUE)

NextLocks ==
    \/ track_check
    \/ \E fg \in {"foo.exe", None} : track_sample(fg, 0)
    \/ track_acquire
    \/ track_lock_timeout
    \/ track_locked
    \/ track_callbacks
    \/ autosave_begin
    \/ autosave_lock_timeout
    \/ autosave
    \/ Advance
    \/ \E op \in UiCalls : ui_block(op)
    \/ set_target("B", "Foo.exe")
    \/ stop_tracking
    \/ set_afk_threshold(-1)
    \/ ui_get_current_seconds

SpecLocks == InitLocks /\ [][NextLocks]_vars

\* SpecOrder: the four threads running their routines' lock operations for
\* ever.  Every critical section finishes, an acquire with a timeout returns,
\* and a thread waiting without a timeout gets a lock that keeps becoming free.
InitOrder ==
    /\ InitCommon
    /\ phase = "run"
    /\ today = 1 /\ now = 1
    /\ env_mode = "short"
    /\ log_file = Absent /\ backup_file = Absent
    /\ data = EmptyLedger /\ expected = EmptyLedger
    /\ TrackerInit(1, "A", "foo.exe", TRUE)

NextOrder ==
    \/ \E th \in LkThreads : \E r \in RoutinesOf(th) : lk_start(th, r)
    \/ \E th \in LkThreads : lk_acquire(th)
    \/ \E th \in LkThreads : lk_timeout(th)
    \/ \E th \in LkThreads : lk_release(th)
    \/ \E th \in LkThreads : lk_callback(th)
    \/ \E th \in LkThreads : lk_return(th)

FairOrder ==
    \A th \in LkThreads :
        /\ WF_vars(lk_release(th) \/ lk_callback(th) \/ lk_return(th))
        /\ WF_vars(lk_acquire(th) \/ lk_timeout(th))
        /\ SF_vars(lk_acquire(th))

SpecOrder == InitOrder /\ [][NextOrder]_vars /\ FairOrder

\* SpecSave: the tracking loop calling add_time and the autosave loop calling
\* save while the clock runs and while any file operation of save may raise.
InitSave ==
    /\ InitCommon
    /\ phase = "run"
    /\ today = 1 /\ now = 1 /\ env_mode = "clock"
    /\ TrackerInit(1, None, None, FALSE)
    /\ \E f \in {<<Absent, Absent>>, <<Json(SeedLedger), Json(EmptyLedger)>>} :
           log_file = f[1] /\ backup_file = f[2]
    /\ data = load_result(EmptyLedger, log_file, backup_file).data
    /\ expected = data

NextSave ==
    \/ add_time_call("track", "A", 1, NoDate)
    \/ \E th \in {"track"} : add_time_acquire(th)
    \/ \E th \in {"track"} : add_time_timeout(th)
    \/ \E th \in {"track"} : add_time_read(th)
    \/ \E th \in {"track"} : add_time_write(th)
    \/ \E force \in BOOLEAN : save_call("autosave", force)
    \/ \E th \in {"autosave"} : save_acquire(th)
    \/ \E th \in {"autosave"} : save_timeout(th)
    \/ \E th \in {"autosave"} : save_backup(th)
    \/ \E th \in {"autosave"} : save_backup_copy(th)
    \/ \E th \in {"autosave"} : save_backup_fail(th)
    \/ \E th \in {"autosave"} : save_temp_open(th)
    \/ \E th \in {"autosave"} : save_temp_dump(th)
    \/ \E th \in {"autosave"} : save_temp_fail(th)
    \/ \E th \in {"autosave"} : save_validate(th)
    \/ \E th \in {"autosave"} : save_validate_fail(th)
    \/ \E th \in {"autosave"} : save_replace(th)
    \/ \E th \in {"autosave"} : save_replace_fail(th)
    \/ \E th \in {"autosave"} : save_finish(th)
    \/ clock_tick

SpecSave == InitSave /\ [][NextSave]_vars

\* SpecEmergency: the UI thread calling emergency_save while the tracking loop
\* calls add_time and any file operation may raise.
InitEmergency ==
    /\ InitCommon
    /\ phase = "run"
    /\ today = 1 /\ now = 1 /\ env_mode = "faulty"
    /\ TrackerInit(1, None, None, FALSE)
    /\ \E f \in {<<Absent, Absent>>, <<Json(SeedLedger), Json(EmptyLedger)>>} :
           log_file = f[1] /\ backup_file = f[2]
    /\ data = load_result(EmptyLedger, log_file, backup_file).data
    /\ expected = data

NextEmergency ==
    \/ add_time_call("track", "A", 1, NoDate)
    \/ add_time_acquire("track")
    \/ add_time_timeout("track")
    \/ add_time_read("track")
    \/ add_time_write("track")
    \/ es_call("ui")
    \/ save_acquire("ui")
    \/ save_timeout("ui")
    \/ save_backup("ui")
    \/ save_backup_copy("ui")
    \/ save_backup_fail("ui")
    \/ save_temp_open("ui")
    \/ save_temp_dump("ui")
    \/ save_temp_fail("ui")
    \/ save_validate("ui")
    \/ save_validate_fail("ui")
    \/ save_replace("ui")
    \/ save_replace_fail("ui")
    \/ save_finish("ui")
    \/ \E raises \in BOOLEAN : es_sidecar_open("ui", raises)
    \/ \E outcome \in DumpOutcomes : es_sidecar_dump("ui", outcome)
    \/ \E raises \in BOOLEAN : es_text_open("ui", raises)
    \/ \E outcome \in DumpOutcomes : es_text_dump("ui", outcome)

SpecEmergency == InitEmergency /\ [][NextEmergency]_vars

\* SpecLedger: the UI thread calling the store's operations one after another
\* on a ledger that holds entries in and around the 7 and 30 day windows.
LedgerToday == MonthDays + WeekDays
LedgerOffsets == {-1, 0, WeekDays - 1, WeekDays, MonthDays - 1, MonthDays}

\* the entry of the day k days back: distinct powers of two, so that a sum
\* tells which days it covers
LedgerWeight(k) ==
    CASE k = -1 -> 32 [] k = 0 -> 1 [] k = WeekDays - 1 -> 2 [] k = WeekDays -> 4
      [] k = MonthDays - 1 -> 8 [] OTHER -> 16

LedgerOf(S) ==
    ("A" :> [d \in {LedgerToday - k : k \in S} |-> LedgerWeight(LedgerToday - d)])
        @@ ("B" :> (LedgerToday :> 3))

\* the days on which title A has an entry when a run starts
LedgerShapes ==
    {{}, LedgerOffsets, LedgerOffsets \ {0}, {0, WeekDays - 1}, {WeekDays, MonthDays},
     {-1, MonthDays - 1}}

LedgerTitles == {"A", "B", "C", ""}
LedgerSeconds == {-1, 0, 2}
LedgerDates == {NoDate, LedgerToday - 1}

InitLedger ==
    /\ InitCommon
    /\ phase = "run"
    /\ today = LedgerToday /\ now = 1 /\ env_mode = "free"
    /\ TrackerInit(1, None, None, FALSE)
    /\ \E S \in LedgerShapes : data = LedgerOf(S)
    /\ log_file = Json(data) /\ backup_file = Absent
    /\ expected = data

NextLedger ==
    \/ \E vn \in LedgerTitles, s \in LedgerSeconds, d \in LedgerDates :
          add_time_call("ui", vn, s, d)
    \/ add_time_acquire("ui")
    \/ add_time_read("ui")
    \/ add_time_write("ui")
    \/ \E vn \in LedgerTitles : dm_reset_today(vn)
    \/ \E vn \in LedgerTitles : get_seconds(vn)
    \/ \E vn \in LedgerTitles : remove_vn(vn)

SpecLedger == InitLedger /\ [][NextLedger]_vars

\* SpecFlush: the tracking loop with A bound to foo.exe, the clock moving at
\* any point, while the crash logger's emergency-save callback runs
\* data_manager.emergency_save() -> save(force_backup=True) on another thread
\* and holds the store's lock for as long as its file operations take.
InitFlush ==
    /\ InitCommon
    /\ phase = "run"
    /\ today = 1 /\ now = 1 + StartDelay
    /\ env_mode = "free"
    /\ log_file = Absent /\ backup_file = Absent
    /\ data = EmptyLedger /\ expected = EmptyLedger
    /\ TrackerInit(1, "A", "foo.exe", TRUE)

NextFlush ==
    \/ track_check
    \/ \E fg \in {"foo.exe", None} : track_sample(fg, 0)
    \/ track_acquire
    \/ track_locked
    \/ track_locked_add_fails
    \/ track_callbacks
    \/ Advance
    \/ save_call("ui", TRUE)
    \/ save_acquire("ui")
    \/ save_backup("ui")
    \/ save_backup_copy("ui")
    \/ save_temp_open("ui")
    \/ save_temp_dump("ui")
    \/ save_validate("ui")
    \/ save_replace("ui")
    \/ save_finish("ui")

SpecFlush == InitFlush /\ [][NextFlush]_vars

\* SpecPanic: the tracking loop with A bound to foo.exe, the clock moving at
\* any point, and TimeTracker.emergency_save called from another thread
\* between iterations.
NextPanic ==
    \/ track_check
    \/ \E fg \in {"foo.exe", None} : track_sample(fg, 0)
    \/ track_acquire
    \/ track_locked
    \/ track_callbacks
    \/ Advance
    \/ emergency_save
    \/ stop_tracking

SpecPanic == InitFlush /\ [][NextPanic]_vars

\* SpecRecover: add_time and save step by step with kills, started on files
\* of which one may not parse: a corrupt primary whose ledger load() recovered
\* from the backup, or a parseable primary beside a missing or corrupt backup.
RecoverFiles ==
    {<<Corrupt, Json(SeedLedger)>>, <<Json(SeedLedger), Corrupt>>,
     <<Json(SeedLedger), Absent>>, <<Json(SeedLedger), Json(EmptyLedger)>>,
     <<Corrupt, Corrupt>>}

InitRecover ==
    /\ InitCommon
    /\ phase = "run"
    /\ today = 1 /\ now = 1 /\ env_mode = "free"
    /\ TrackerInit(1, None, None, FALSE)
    /\ \E f \in RecoverFiles : log_file = f[1] /\ backup_file = f[2]
    /\ data = load_result(EmptyLedger, log_file, backup_file).data
    /\ expected = data

NextRecover ==
    \/ add_time_call("track", "A", 1, NoDate)
    \/ add_time_acquire("track")
    \/ add_time_read("track")
    \/ add_time_write("track")
    \/ \E force \in BOOLEAN : save_call("autosave", force)
    \/ save_acquire("autosave")
    \/ save_backup("autosave")
    \/ save_backup_copy("autosave")
    \/ save_temp_open("autosave")
    \/ save_temp_dump("autosave")
    \/ save_validate("autosave")
    \/ save_replace("autosave")
    \/ save_finish("autosave")
    \/ Kill

SpecRecover == InitRecover /\ [][NextRecover]_vars

\* SpecReset: the tracking loop with A bound to foo.exe, the clock moving at
\* any point, and the UI thread calling TimeTracker.reset_today.
NextReset ==
    \/ track_check
    \/ \E fg \in {"foo.exe", None} : track_sample(fg, 0)
    \/ track_acquire
    \/ track_locked
    \/ track_callbacks
    \/ Advance
    \/ reset_today
    \/ reset_today_clear

SpecReset == InitFlush /\ [][NextReset]_vars

\* SpecPoll: the three background loops iterating, failing and sleeping
\* while the clock runs, and a shutdown request at any moment.
InitPoll ==
    /\ InitCommon
    /\ phase = "run"
    /\ today = 1 /\ now = 1 /\ env_mode = "clock"
    /\ log_file = Absent /\ backup_file = Absent
    /\ data = EmptyLedger /\ expected = EmptyLedger
    /\ TrackerInit(1, None, None, TRUE)

NextPoll ==
    \/ \E l \in Loops, ok \in BOOLEAN : poll_iterate(l, ok)
    \/ \E l \in Loops : poll_wake(l)
    \/ \E l \in Loops : poll_exit(l)
    \/ poll_clock
    \/ poll_stop

SpecPoll == InitPoll /\ [][NextPoll]_vars

\* SpecTrackLoop: the three loops pass by pass while the clock runs, the
\* tracking loop's passes succeeding, timing out on _data_lock or raising,
\* and the UI thread binding and unbinding the target between them.
InitLoops ==
    /\ InitCommon
    /\ phase = "run"
    /\ today = 1 /\ now = 1 /\ env_mode = "clock"
    /\ log_file = Absent /\ backup_file = Absent
    /\ data = EmptyLedger /\ expected = EmptyLedger
    /\ TrackerInit(1, "A", "foo.exe", TRUE)

NextTrackLoop ==
    \/ \E o \in {"idle", "ok", "timeout", "raise"} : poll_pass("track", o)
    \/ \E l \in {"autosave", "refresh"} : poll_pass(l, "ok")
    \/ \E l \in Loops : poll_wake(l)
    \/ \E l \in Loops : poll_exit(l)
    \/ poll_clock
    \/ set_target("A", "Foo.exe")
    \/ stop_tracking

SpecTrackLoop == InitLoops /\ [][NextTrackLoop]_vars

\* SpecLoops: the three loops pass by pass over a time long enough for the
\* autosave loop to give up, and a shutdown request at any moment.
InitLongLoops ==
    /\ InitCommon
    /\ phase = "run"
    /\ today = 1 /\ now = 1 /\ env_mode = "long"
    /\ log_file = Absent /\ backup_file = Absent
    /\ data = EmptyLedger /\ expected = EmptyLedger
    /\ TrackerInit(1, "A", "foo.exe", TRUE)

NextLoops ==
    \/ \E o \in {"ok", "timeout", "raise"} : poll_pass("track", o)
    \/ \E o \in {"ok", "timeout"} : poll_pass("autosave", o)
    \/ poll_pass("refresh", "ok")
    \/ \E l \in Loops : poll_wake(l)
    \/ \E l \in Loops : poll_exit(l)
    \/ poll_clock
    \/ poll_stop

SpecLoops == InitLongLoops /\ [][NextLoops]_vars

\* The process monitor from its construction over ten minutes: the start,
\* then the refresh loop alone, with enumerations that can fail.
InitRefresh ==
    /\ InitCommon
    /\ phase = "run"
    /\ today = 1 /\ now = 1 /\ env_mode = "long"
    /\ log_file = Absent /\ backup_file = Absent
    /\ data = EmptyLedger /\ expected = EmptyLedger
    /\ TrackerInit(1, None, None, FALSE)

NextRefresh ==
    \/ \E ok \in BOOLEAN : monitor_start(ok)
    \/ \E ok \in BOOLEAN : refresh_loop_pass(ok)
    \/ \E th \in MonThreads : update_commit(th)
    \/ \E s \in SUBSET Procs : os_change(s)
    \/ observer_mutate
    \/ refresh_wake
    \/ monitor_clock

SpecRefresh == InitRefresh /\ [][NextRefresh]_vars

\* The process monitor and its caller over the first seconds: start, stop,
\* start again, forced refreshes racing with the loop's first pass.
InitMonitor ==
    /\ InitCommon
    /\ phase = "run"
    /\ today = 1 /\ now = 1 /\ env_mode = "clock"
    /\ log_file = Absent /\ backup_file = Absent
    /\ data = EmptyLedger /\ expected = EmptyLedger
    /\ TrackerInit(1, None, None, FALSE)

NextMonitor ==
    \/ \E ok \in BOOLEAN : monitor_start(ok)
    \/ monitor_stop
    \/ monitor_stop_return
    \/ \E ok \in BOOLEAN : refresh_process_list(ok)
    \/ \E ok \in BOOLEAN : refresh_loop_pass(ok)
    \/ \E th \in MonThreads : update_commit(th)
    \/ \E s \in SUBSET Procs : os_change(s)
    \/ observer_mutate
    \/ refresh_wake
    \/ monitor_clock

SpecMonitor == InitMonitor /\ [][NextMonitor]_vars

\* The loops with an autosave whose save can fail.
NextSaveLoop ==
    \/ \E o \in {"ok", "save_failed", "timeout", "raise"} : poll_pass("autosave", o)
    \/ \E l \in {"track", "refresh"} : poll_pass(l, "ok")
    \/ \E l \in Loops : poll_wake(l)
    \/ \E l \in Loops : poll_exit(l)
    \/ poll_clock
    \/ poll_stop

SpecSaveLoop == InitLoops /\ [][NextSaveLoop]_vars

\* The loops with stop() and start() of the tracker called again and again,
\* and an autosave loop whose pass can raise.
NextRespawn ==
    \/ poll_pass("track", "ok")
    \/ \E o \in {"ok", "raise"} : poll_pass("autosave", o)
    \/ poll_pass("refresh", "ok")
    \/ \E l \in Loops : poll_wake(l)
    \/ \E l \in Loops : poll_exit(l)
    \/ poll_clock
    \/ poll_stop
    \/ poll_join_track
    \/ poll_join_autosave
    \/ poll_start
    \/ \E l \in Loops : stale_step(l)

SpecRespawn == InitLoops /\ [][NextRespawn]_vars

\* ------------------------------------------------------------------ claims
AllOutsideAdd == \A th \in Threads : pc[th] \notin {"add_read", "add_write"}
AllIdle == \A th \in Threads : pc[th] = "idle"

\* C1: whenever no add_time call is inside its critical section, every ledger
\* entry equals its value at load plus the sum of the seconds of all add_time
\* calls that acquired the store lock, whatever the interleaving of the
\* tracking thread's and the UI thread's calls with each other and with save:
\* no update is lost.
C1_NoLostUpdate ==
    AllOutsideAdd =>
        \A vn \in Titles, d \in Dates : LedgerGet(data, vn, d) = LedgerGet(expected, vn, d)

\* C1 witness: calls that had to wait for each other have all returned and
\* today's entry of A holds the sum of several of them.
C1_Witness ==
    AllIdle /\ contended /\ get_today_seconds("A") >= 3

C4_LoadFallback ==
    phase = "run" =>
        /\ ~load_raised
        /\ data = IF Exists(log_file) /\ Parses(log_file) THEN log_file.ledger
                  ELSE IF ~Exists(log_file) THEN EmptyLedger
                  ELSE IF Exists(backup_file) /\ Parses(backup_file)
                       THEN backup_file.ledger
                  ELSE EmptyLedger

\* C4 witness: the primary is unparseable, the backup holds a non-empty ledger,
\* and load() has recovered exactly it.
C4_Witness ==
    phase = "run" /\ log_file = Corrupt /\ Parses(backup_file)
        /\ backup_file.ledger # EmptyLedger /\ data = backup_file.ledger

\* the locked part of an iteration of the tracking loop runs
TickStep == track_pc = "locked" /\ track_pc' = "callbacks"

\* C3: after a kill while a session is ACTIVE, what load() returns for the
\* target falls short of the active time accumulated up to the kill by at most
\* the flush interval.
C3_BoundedLoss ==
    crash_rec.active => crash_rec.accumulated - crash_rec.persisted <= save_interval

C7_LedgerIsActiveSum ==
    /\ current_state # "ACTIVE" => get_today_seconds("A") = active_sum
    /\ (env_mode = "script" /\ track_pc = "sleep" /\ now - t0 = 10)
           => get_today_seconds("A") = 10
    /\ (env_mode = "script" /\ track_pc = "sleep" /\ now - t0 = 75)
           => get_today_seconds("A") = 70

\* C7 witness: the scenario has reached the tick of t=75, which closed the
\* second interval after partial flushes had already taken part of its 60 s.
C7_Witness ==
    /\ env_mode = "script" /\ track_pc = "sleep" /\ now - t0 = 75
    /\ current_state = "AFK" /\ get_today_seconds("A") = 70
    /\ last_flush.by = "tick" /\ last_flush.elapsed > 0 /\ last_flush.elapsed < 60

C9_NoMisattribution ==
    [][/\ (TickStep /\ last_start = NoTime /\ last_start' # NoTime) =>
              (Truthy(selected_vn_title) /\ active_process = selected_process)
       /\ \A vn \in Titles :
              LedgerGet(data', vn, today) > LedgerGet(data, vn, today)
                  => vn = session_target
      ]_vars

\* C10: set_target called while a session is open adds now - last_start to the
\* previous title's entry and to no other, clears last_start, binds the new
\* title and the lower-cased process name, and leaves the state and the
\* running iteration's values to the next tick.
C10_SetTarget ==
    [][\A vn \in Titles, p \in ProcArgs :
          (set_target(vn, p) /\ last_start # NoTime) =>
              /\ \A t \in Titles :
                     LedgerGet(data', t, today) = LedgerGet(data, t, today)
                         + (IF t = selected_vn_title THEN now - last_start ELSE 0)
              /\ last_start' = NoTime
              /\ selected_vn_title' = vn
              /\ selected_process' = Lower(p)
              /\ UNCHANGED <<current_state, loop_vars>>
      ]_vars

\* C11: when stop_tracking returns, the pending seconds of an open session
\* have been added to the bound title's entry, title, process and last_start
\* are cleared, the tracker's state is INACTIVE, and the observers have been
\* handed INACTIVE with the flushed total.
C11_StopTracking ==
    [][stop_tracking =>
          /\ \A vn \in Titles :
                 LedgerGet(data', vn, today) = LedgerGet(data, vn, today)
                     + (IF vn = selected_vn_title /\ last_start # NoTime
                        THEN now - last_start ELSE 0)
          /\ selected_vn_title' = None /\ selected_process' = None
          /\ last_start' = NoTime
          /\ current_state' = "INACTIVE"
          /\ notified' = [state |-> "INACTIVE",
                          seconds |-> IF Truthy(selected_vn_title)
                                      THEN LedgerGet(data', selected_vn_title, today)
                                      ELSE 0]
      ]_vars

\* C12: a stop() called while running always returns; it has then set the
\* shutdown event first, taken exactly one of the two paths (the final flush
\* and save(force_backup) under the lock, or the emergency save without it),
\* and ended each join, with both thread handles dropped whether the loop had
\* finished or not.
C12_StopReturns ==
    /\ [](stop_pc = "returned" =>
            /\ shutdown_event /\ ~running
            /\ ~track_handle /\ ~autosave_handle
            /\ \E j1, j2 \in {"joined", "abandoned"} :
                   stop_log \in {<<"signal", "flush", "save", j1, j2>>,
                                 <<"signal", "emergency", j1, j2>>})
    /\ (stop_pc = "acquire" ~> stop_pc = "returned")

\* C12 witness: a stop() that could not get the lock has returned after the
\* emergency save and has abandoned a loop that had not finished.
C12_Witness ==
    /\ stop_pc = "returned"
    /\ stop_log[2] = "emergency" /\ stop_log[3] = "abandoned"
    /\ data_lock # NoThread

\* C13: the UI thread is never waiting, in get_current_seconds, set_target or
\* set_afk_threshold, for the session lock while its holder is inside
\* data_manager.save.
C13_UiNeverWaitsForSave ==
    ~(/\ ui_wait \in {"get_current_seconds", "set_target", "set_afk_threshold"}
      /\ data_lock = "autosave" /\ autosave_pc = "saving")

\* a thread is at an acquire step (it has asked for a lock)
LkAsking(th) == LkAt(th) /\ LkStep(th).op = "acq"

\* following who holds what th waits for ends, within n holders, at a thread
\* that can take a step
RECURSIVE LkFree(_, _)
LkFree(th, n) ==
    \/ ~LkWaiting(th)
    \/ n > 0 /\ LkFree(LkHolder(LkStep(th).lock), n - 1)

\* C14: no deadlock among the tracking loop, the autosave loop, the refresh
\* loop, the UI-thread calls and emergency save: a thread asking for the
\* session lock never holds the store lock, a thread holding the store lock or
\* the process monitor's lock asks for no lock, the loops wait only on lock
\* acquisitions with a timeout, every chain of waiting threads ends at a thread
\* that can run, and every lock request is eventually granted or times out.
C14_NoDeadlock ==
    /\ [](\A th \in LkThreads :
            /\ (LkAsking(th) /\ LkStep(th).lock = "data") => store_lock # th
            /\ (store_lock = th \/ pm_lock = th) => ~LkAsking(th)
            /\ (th # "ui" /\ LkWaiting(th)) => LkStep(th).timed
            /\ LkFree(th, 2))
    /\ \A th \in LkThreads : LkAsking(th) ~> ~LkAsking(th)

\* the autosave loop waits for the session lock held by the tracking loop, which
\* waits for the store lock held by reset_today on the UI thread
C14_Witness ==
    /\ LkWaiting("autosave") /\ data_lock = "track"
    /\ LkWaiting("track") /\ store_lock = "ui" /\ lk["ui"].r = "reset_today"

\* the tracking loop calls its state and update observers
CallbackStep == track_pc = "callbacks" /\ track_pc' = "sleep" /\ running

\* C15: the tracker's state and update observers are called while the tracking
\* thread holds neither _data_lock nor the store lock, and the (state, seconds)
\* they receive is the pair the iteration computed under its one acquisition
\* of _data_lock.
C15_CallbacksOutsideLocks ==
    [][CallbackStep =>
          /\ data_lock # "track" /\ store_lock # "track" /\ cb_held' = {}
          /\ notified' = tick_pair]_vars

\* observers were told ACTIVE with a positive count while a UI call has since
\* changed the target
C15_Witness ==
    /\ notified.state = "ACTIVE" /\ notified.seconds > 0 /\ cb_held = {}
    /\ track_pc = "sleep" /\ notified = tick_pair /\ selected_vn_title = "B"

\* th is calling the process-list observers
LkNotifying(th) == LkAt(th) /\ LkStep(th) = Cb("process_list")

\* C16: the process-list observers are never called by a thread that holds
\* ProcessMonitor._lock, neither from the refresh loop nor from a forced
\* refresh on the UI thread.
C16_ObserversOffLock ==
    \A th \in LkThreads : LkNotifying(th) => pm_lock # th

\* the save of th returns, normally or by raising, after it had the lock
SaveReturns(th) ==
    /\ ret[th].op = "save"
    /\ pc[th] \notin {"idle", "save_acquire"} /\ pc'[th] = "idle"

\* the steps of save in which a file operation can fail
SaveSteps == {"backup", "write", "validate", "replace"}

\* C17: a save in which the backup copy, the temp-file write, the temp-file
\* validation or the replace failed returns an error, leaves the primary file
\* as it was before the call, keeps the dirty flag if it was set and leaves no
\* temp file.
C17_FailedSaveLeavesNoTrace ==
    [][\A th \in Threads :
          (SaveReturns(th) /\ ret'[th].failed \in SaveSteps) =>
              /\ ret'[th].result = "error"
              /\ log_file' = ret[th].pre.log
              /\ ret[th].pre.dirty => pending_changes'
              /\ temp_file' = Absent]_vars

\* whether save's condition for the backup copy held when it started
BackupDue(r) == (r.pre.dirty \/ r.force) /\ Exists(r.pre.log)

\* C18: a save that returns normally took the store lock once and, holding it,
\* copied the primary to the backup (if dirty or forced, and a primary
\* existed), wrote the temp file, parsed it back and replaced the primary, in
\* this order; on return the primary holds the in-memory ledger, the backup
\* (when the copy was due) holds the primary's earlier content, the temp file
\* is gone and the dirty flag is clear.
C18_SuccessfulSaveOrder ==
    [][\A th \in Threads :
          (SaveReturns(th) /\ ret'[th].result = "ok") =>
              /\ store_lock = th
              /\ ret[th].trace =
                    <<"acquire">> \o (IF BackupDue(ret[th]) THEN <<"backup">> ELSE << >>)
                                  \o <<"write", "validate", "replace">>
              /\ log_file' = Json(data')
              /\ BackupDue(ret[th]) => backup_file' = ret[th].pre.log
              /\ temp_file' = Absent
              /\ ~pending_changes']_vars

\* add_time or save gives up waiting for the store lock
LockTimeout(th) == Waiting(th) /\ pc'[th] = "idle"

\* C19: add_time never waits for the store lock longer than 5 s and save never
\* longer than 10 s; a call that gives up returns an error and leaves the
\* ledger, the dirty flag, the three files and the lock as they were.
C19_LockTimeout ==
    /\ [](\A th \in Threads :
            /\ pc[th] = "add_acquire" => now - ret[th].since <= 5
            /\ pc[th] = "save_acquire" => now - ret[th].since <= 10)
    /\ [][\A th \in Threads :
             LockTimeout(th) =>
                 /\ ret'[th].result = "error" /\ ret'[th].failed = "lock"
                 /\ UNCHANGED store_vars]_vars

\* save gave up after ten seconds in which add_time held the lock
C19_Witness ==
    /\ ret["autosave"].op = "save" /\ ret["autosave"].failed = "lock"
    /\ ret["autosave"].result = "error"
    /\ store_lock = "track" /\ now - t0 >= 10

\* emergency_save returns
EsReturns(th) ==
    ret[th].op = "emergency_save" /\ pc[th] # "idle" /\ pc'[th] = "idle"

\* the stages emergency_save can have gone through when it returns
EsChains ==
    {<<"save">>, <<"save_failed", "sidecar">>}
        \cup {<<"save_failed", s, x>> : s \in {"sidecar_io", "sidecar_race"},
                                        x \in {"text", "text_io", "text_race"}}

\* no open or write of a sidecar file failed
EsWritable(es) == \A k \in 1..Len(es) : es[k] \notin {"sidecar_io", "text_io"}

ResetDone(vn) == ret["ui"].op = "reset_today" /\ ret["ui"].vn = vn /\ pc["ui"] = "idle"

\* the weekly sum of vn over a ledger L
WeeklyOf(L, vn) == SumBack(L, vn, today, WeekDays)

\* C21: reset_today(T) sets today's entry of T to exactly 0 and keeps the key,
\* marks the store dirty, leaves every other date of T and every entry of
\* every other title as it was, and lowers the weekly sum of T by what today's
\* entry held.
C21_ResetToday ==
    [][\A vn \in LedgerTitles \ {""} :
          (ops' = ops + 1 /\ ResetDone(vn)') =>
              LET L == ret'["ui"].pre.data IN
              /\ vn \in DOMAIN data' /\ today \in DOMAIN data'[vn]
              /\ data'[vn][today] = 0
              /\ pending_changes'
              /\ DOMAIN data' = DOMAIN L \cup {vn}
              /\ \A o \in DOMAIN L \ {vn} : data'[o] = L[o]
              /\ DOMAIN data'[vn] =
                    (IF vn \in DOMAIN L THEN DOMAIN L[vn] ELSE {}) \cup {today}
              /\ \A d \in DOMAIN data'[vn] \ {today} : data'[vn][d] = L[vn][d]
              /\ WeeklyOf(data', vn) = WeeklyOf(L, vn) - LedgerGet(L, vn, today)]_vars

\* a reset of a title that had time today and on other days of the week
C21_Witness ==
    /\ ResetDone("A")
    /\ LedgerGet(ret["ui"].pre.data, "A", today) > 0
    /\ LedgerGet(data, "A", today) = 0
    /\ get_weekly_seconds("A") > 0

\* C22: once the deletion of title T has completed, the ledger holds no dated
\* entry for T and its total is 0.
C22_DeleteTarget ==
    \A vn \in LedgerTitles :
        (ret["ui"].op = "remove_vn" /\ ret["ui"].vn = vn) =>
            /\ vn \notin DOMAIN data
            /\ get_total_seconds(vn) = 0

\* the entries of vn in L dated within the n days that end with today, summed
WindowSum(L, vn, n) ==
    IF vn \in DOMAIN L
    THEN SumItems(L[vn], {d \in DOMAIN L[vn] : today - n < d /\ d <= today})
    ELSE 0

\* the entries of vn in L, summed
TotalOf(L, vn) == IF vn \in DOMAIN L THEN SumItems(L[vn], DOMAIN L[vn]) ELSE 0

NonNegative(L) == \A vn \in DOMAIN L : \A d \in DOMAIN L[vn] : L[vn][d] >= 0

\* C23: get_today_seconds is today's entry (0 if absent), get_weekly_seconds
\* and get_monthly_seconds are the sums of the entries of the 7 and 30 days
\* ending with today, get_total_seconds is the sum of all entries; the queries
\* change neither the ledger nor the dirty flag, and on a ledger of
\* non-negative entries today <= weekly <= monthly <= total.
C23_Queries ==
    [][\A vn \in LedgerTitles :
          (ops' = ops + 1 /\ ret'["ui"].op = "get_seconds" /\ ret'["ui"].vn = vn) =>
              LET v == ret'["ui"].value IN
              /\ v[1] = LedgerGet(data, vn, today)
              /\ v[2] = WindowSum(data, vn, 7)
              /\ v[3] = WindowSum(data, vn, 30)
              /\ v[4] = TotalOf(data, vn)
              /\ UNCHANGED <<data, pending_changes>>
              /\ NonNegative(data) => (v[1] <= v[2] /\ v[2] <= v[3] /\ v[3] <= v[4])]_vars

\* the four sums of a title with entries today, within the week, within the
\* month, before the month and after today
C23_Witness ==
    /\ ret["ui"].op = "get_seconds" /\ ret["ui"].vn = "A"
    /\ LET v == ret["ui"].value IN
         0 < v[1] /\ v[1] < v[2] /\ v[2] < v[3] /\ v[3] < v[4]
    /\ LedgerToday - WeekDays \in DOMAIN data["A"]
    /\ LedgerToday + 1 \in DOMAIN data["A"]

\* the step is the store's reset_today(vn) returning
ResetStep(vn) ==
    ops' = ops + 1 /\ ret'["ui"].op = "reset_today" /\ ret'["ui"].vn = vn

\* C24: every entry of the ledger is a non-negative integer in every reachable
\* state, and no step lowers an existing entry except reset_today, which sets
\* today's entry of its title to 0 (no operation of the store deletes).
C24_Monotone ==
    /\ [](NonNegative(data) /\ \A vn \in DOMAIN data : \A d \in DOMAIN data[vn] :
                                   data[vn][d] \in Nat)
    /\ [][\A vn \in DOMAIN data : \A d \in DOMAIN data[vn] :
             /\ vn \in DOMAIN data' /\ d \in DOMAIN data'[vn]
             /\ \/ data'[vn][d] >= data[vn][d]
                \/ ResetStep(vn) /\ d = today /\ data'[vn][d] = 0]_vars

\* today's entry of A was raised by add_time and then reset
C24_Witness ==
    /\ ResetDone("A")
    /\ LedgerGet(ret["ui"].pre.data, "A", today) > LedgerGet(LedgerOf({0}), "A", today)
    /\ LedgerGet(data, "A", today) = 0

\* add_time of thread th writes and returns
AddStep(th) == pc[th] = "add_write" /\ pc'[th] = "idle"

\* add_time of thread th returns at its argument check
AddRejected(th) ==
    ops' = ops + 1 /\ ret'[th].op = "add_time" /\ ret'[th].result = "rejected"

\* C25: add_time(T, s, d) with s > 0 and a non-empty T raises exactly the entry
\* (T, d) by s, creating it at s if absent, sets the dirty flag and changes no
\* other entry; add_time with s <= 0 or an empty title changes neither the
\* ledger nor the dirty flag and takes no lock.
C25_AddTime ==
    /\ [][\A th \in Threads :
             AddStep(th) =>
                 LET f == frame[th]
                     L == ret[th].pre.data
                 IN  /\ f.seconds > 0 /\ f.vn # ""
                     /\ pending_changes'
                     /\ DOMAIN data' = DOMAIN L \cup {f.vn}
                     /\ \A o \in DOMAIN L \ {f.vn} : data'[o] = L[o]
                     /\ DOMAIN data'[f.vn] =
                           (IF f.vn \in DOMAIN L THEN DOMAIN L[f.vn] ELSE {}) \cup {f.date}
                     /\ \A d \in DOMAIN data'[f.vn] :
                           data'[f.vn][d] = LedgerGet(L, f.vn, d)
                                              + (IF d = f.date THEN f.seconds ELSE 0)]_vars
    /\ [][\A th \in Threads :
             AddRejected(th) =>
                 /\ UNCHANGED <<data, pending_changes, store_lock, pc>>
                 /\ pc[th] = "idle"]_vars
    /\ [](\A th \in Threads :
             pc[th] \in {"add_acquire", "add_read", "add_write"} =>
                 frame[th].seconds > 0 /\ frame[th].vn # "")

\* add_time added 2 s to yesterday's entry of a title that had no entry there
C25_Witness ==
    /\ ret["ui"].op = "add_time" /\ ret["ui"].result = "ok" /\ pending_changes
    /\ "C" \in DOMAIN data /\ DOMAIN data["C"] = {today - 1}
    /\ data["C"][today - 1] = 2

\* the step clears or advances the start of an open session
FlushStep == last_start # NoTime /\ last_start' # last_start

\* C26: every flush that clears or advances the session start has added the
\* elapsed seconds of the session to today's entry of the tracked title; a
\* flush whose add_time call failed keeps the session start.
C26_FlushKeepsTime ==
    [][FlushStep =>
          LedgerGet(data', selected_vn_title, today)
              = LedgerGet(data, selected_vn_title, today) + (now - last_start)]_vars

\* TimeTracker.emergency_save runs
EmergencyStep == ui_ops' = ui_ops + 1 /\ ret'["ui"].op = "emergency_save"

\* C27: TimeTracker.emergency_save never causes double counting:
\* get_current_seconds taken at the same instant before and after the call is
\* equal, and with flushes of the open session following it the seconds
\* counted for the title never exceed the time that has passed.
C27_EmergencySaveCountsOnce ==
    /\ [][EmergencyStep => get_current_seconds' = get_current_seconds]_vars
    /\ [](get_today_seconds("A") <= now - (t0 + StartDelay))

\* thread th is inside save, between the lock's acquire and its release
InSave(th) ==
    pc[th] \in {"save_backup", "save_backup_copy", "save_temp", "save_temp_dump",
                "save_validate", "save_replace", "save_finish"}

\* C28: if the primary or the backup file parsed when a save began, then at
\* every point of that save at which the process can be killed one of the two
\* still parses, so the load of the next start does not end with the empty
\* ledger; this includes a save of a ledger recovered from the backup.
C28_SaveKeepsOneParseable ==
    \A th \in Threads :
        (InSave(th) /\ (Parses(ret[th].pre.log) \/ Parses(ret[th].pre.backup)))
            => (Parses(log_file) \/ Parses(backup_file))

\* TimeTracker.reset_today has returned, having zeroed today's entry
ResetReturned == ret["ui"].op = "reset_today" /\ ret["ui"].result = "ok"

\* C29: in every interleaving of TimeTracker.reset_today with the tracking
\* loop, once reset_today has returned today's entry of the title holds only
\* time from after the reset: never more than the seconds that have passed
\* since the entry was zeroed, so nothing of the session that was open before.
C29_ResetDropsOpenSession ==
    ResetReturned => get_today_seconds(ret["ui"].vn) <= now - ret["ui"].since

\* C30: no background loop makes one uninterrupted wait longer than 5 s
\* without checking the stop signal, an error backoff included, and every
\* loop has ended once 5 s have passed since shutdown was requested.
C30_LoopsPollStop ==
    /\ \A l \in Loops :
          poll[l].at \in {"wait", "backoff"} => poll[l].until - poll[l].since <= 5
    /\ (shutdown_event /\ now - ret["ui"].since > 5)
          => \A l \in Loops : poll[l].at = "done"

\* loop l ends at this step without a stop request
DiesAlone(l) == poll[l].at # "done" /\ poll'[l].at = "done" /\ ~StopSeen(l)

\* C31: the tracking loop stops itself exactly when 5 passes in a row have
\* failed (raised, or timed out on the session lock); a pass that completes
\* resets the counter to 0, so fewer than 5 failures in a row never stop the
\* loop; and a failed pass is followed by a delay before the next one.
C31_TrackLoopStopsAtFive ==
    /\ [][DiesAlone("track") => poll["track"].fails >= max_consecutive_errors]_vars
    /\ [][(poll'["track"] # poll["track"] /\ poll'["track"].last \in {"ok", "idle"}
              /\ poll["track"].at = "run" /\ poll'["track"].at = "wait")
             => poll'["track"].errors = 0]_vars
    /\ [](poll["track"].fails >= max_consecutive_errors
             => poll["track"].at \in {"run", "backoff", "done"})
    /\ [][(poll["track"].at = "run" /\ poll'["track"].at = "backoff")
             => poll'["track"].until > now]_vars

\* shutdown has been requested
StopRequested == ~running \/ shutdown_event

\* loop l has given up after its consecutive errors
GaveUp(l) == poll[l].at = "done" /\ poll[l].errors >= max_consecutive_errors

\* loop l can take its next step: a pass when it is at the top of the loop,
\* the end of its sleep when the time has come
GoesOn(l) ==
    /\ poll[l].at = "run" => ENABLED (\E o \in PassOutcomes(l) : poll_pass(l, o))
    /\ (poll[l].at \in {"wait", "backoff"} /\ now >= poll[l].until) => ENABLED poll_wake(l)

\* C32: a loop that gives up after 5 consecutive errors takes no other loop
\* with it: until shutdown is requested a loop ends only through its own
\* counter, and while another loop is dead it keeps passing and sleeping.
C32_LoopsDieAlone ==
    /\ [][\A l \in Loops :
             (poll[l].at # "done" /\ poll'[l].at = "done" /\ ~StopRequested)
                 => poll[l].errors >= max_consecutive_errors]_vars
    /\ [](\A l \in Loops :
             (~StopRequested /\ poll[l].errors < max_consecutive_errors
                  /\ \E o \in Loops \ {l} : GaveUp(o))
                 => poll[l].at # "done" /\ GoesOn(l))

\* C32 witness: the tracking loop has given up, and later the autosave loop
\* has made a pass that saved; or the autosave loop has given up and later
\* the tracking loop has completed a pass.
C32_Witness ==
    /\ ~StopRequested
    /\ \/ /\ GaveUp("track") /\ poll["autosave"].last = "ok"
          /\ poll["autosave"].from > poll["track"].since
       \/ /\ GaveUp("autosave") /\ poll["track"].last = "ok"
          /\ poll["track"].from > poll["autosave"].since

\* a step in which an enumeration failed: a refresh pass that did not
\* enumerate, or a start or forced refresh that left no update in progress
EnumerationFailed ==
    \/ poll'["refresh"].fails > poll["refresh"].fails
    \/ mon'.ops > mon.ops /\ mon'.upd = mon.upd /\ mon'.stopping = mon.stopping

\* C33: when more than 5 refreshes in a row have failed to enumerate the
\* processes, the refresh loop is not in its wait for the next refresh (it
\* has stopped or is about to); and a failed enumeration changes neither
\* the stored list nor what the observers were handed.
C33_RefreshStopsOnEnumerationFailures ==
    /\ [](poll["refresh"].fails > max_consecutive_errors
              => poll["refresh"].at \notin {"wait", "update"})
    /\ [][EnumerationFailed => /\ mon'.process_list = mon.process_list
                               /\ mon'.calls = mon.calls
                               /\ mon'.handed = mon.handed]_vars

\* the second half of C33 alone
C33_FailedEnumerationKeepsList ==
    [][EnumerationFailed => /\ mon'.process_list = mon.process_list
                            /\ mon'.calls = mon.calls
                            /\ mon'.handed = mon.handed]_vars

\* an autosave pass whose save failed
SaveFailedStep ==
    /\ poll["autosave"].at = "run" /\ poll'["autosave"] # poll["autosave"]
    /\ poll'["autosave"].last = "save_failed"

\* C34: a failed save in the autosave loop counts as one more consecutive
\* error n and the next attempt waits min(10 * 2^(n-1), 60) s; no such delay
\* is longer than 60 s; after 5 failed saves in a row the loop is not waiting
\* for another attempt.
C34_FailedSaveBacksOff ==
    /\ [][SaveFailedStep =>
            /\ poll'["autosave"].errors = poll["autosave"].errors + 1
            /\ poll'["autosave"].errors < max_consecutive_errors =>
                  /\ poll'["autosave"].at = "backoff"
                  /\ poll'["autosave"].until
                        = now + Backoff("autosave", poll'["autosave"].errors)]_vars
    /\ [](poll["autosave"].at = "backoff"
              => poll["autosave"].until - poll["autosave"].since <= 60)
    /\ [](poll["autosave"].fails >= max_consecutive_errors
              => poll["autosave"].at \notin {"wait", "backoff"})

\* the part of C34 that holds: no backoff of the autosave loop exceeds 60 s
C34_BackoffAtMostSixty ==
    poll["autosave"].at = "backoff"
        => poll["autosave"].until - poll["autosave"].since <= 60

\* a flush after a start() that followed a stop() by at least a second
FlushAfterRestart ==
    /\ last_flush' # last_flush
    /\ ret["ui"].op = "start" /\ ret["ui"].value[1] < ret["ui"].since

\* C35: once stop() has returned no session is open, whatever a tick that
\* was waiting for the session lock did in between; and a flush after a
\* later start() is of a session opened after that start, so that it holds
\* none of the time the tracker was stopped.
C35_StopClosesSession ==
    /\ [](stop_pc = "returned" /\ ~running => last_start = NoTime)
    /\ [][FlushAfterRestart => last_start >= ret["ui"].since]_vars

\* C35 for a stop() that got the session lock and flushed
C35_FlushingStopClosesSession ==
    (stop_pc = "returned" /\ ~running /\ stop_log[2] = "flush") => last_start = NoTime

\* the threads of loop l that are alive
LiveThreads(l) ==
    (IF poll[l].at # "done" THEN 1 ELSE 0)
        + (IF stale[l].at \notin {"none", "done"} THEN 1 ELSE 0)

\* C36: a start() while the tracker is running starts no thread, a thread
\* that stop() abandoned makes no pass after a later start(), and no two
\* threads of one loop are passing through it.
C36_OneLoopEach ==
    /\ [][(running /\ ret["ui"].op \notin {"stop", "join"}) =>
              \A l \in Loops : poll[l].at = "done" => poll'[l].at = "done"]_vars
    /\ [](\A l \in Loops : stale[l].last # "resumed")
    /\ [](\A l \in Loops : stale[l].last = "resumed" => LiveThreads(l) <= 1)

\* C36, the first part alone
C36_StartWhileRunningSpawnsNothing ==
    [][(running /\ ret["ui"].op \notin {"stop", "join"}) =>
           \A l \in Loops : poll[l].at = "done" => poll'[l].at = "done"]_vars

\* C37: whenever the session lock is free, an open session means that a
\* target and a process are bound and that the last computed state is
\* ACTIVE; and every step that takes the state away from ACTIVE leaves no
\* session open.
C37_OpenSessionIsActive ==
    /\ []((data_lock = NoThread /\ last_start # NoTime) =>
              /\ Truthy(selected_vn_title) /\ Truthy(selected_process)
              /\ current_state = "ACTIVE")
    /\ [][(current_state = "ACTIVE" /\ current_state' # "ACTIVE")
              => last_start' = NoTime]_vars

\* the call of thread th compares its enumerated list under the lock
CommitStep(th) == mon.upd[th].pc = "enumerated" /\ mon'.upd[th].pc = "idle"

\* an observer writes into the list it was handed
ObserverWrites == Junk \notin mon.handed /\ Junk \in mon'.handed

IdleTick ==
    /\ running /\ track_pc = "check" /\ track_pc' # "check"
    /\ ~Truthy(selected_process) \/ ~Truthy(selected_vn_title)

\* C39: until the first tick has computed a state the state is INACTIVE; a
\* tick that finds no target or no process bound sets the state INACTIVE and
\* goes to its sleep: it takes no sample, leaves the session start as it is
\* and writes nothing to the ledger.
C39_IdleTick ==
    /\ [](tick_pair.state = "none" => current_state = "INACTIVE")
    /\ [][IdleTick =>
            /\ current_state' = "INACTIVE"
            /\ track_pc' = "sleep"
            /\ UNCHANGED <<active_process, idle_time, is_process_active>>
            /\ UNCHANGED <<last_start, data, pending_changes>>]_vars

\* C39 witness: the state was ACTIVE, stop_tracking cleared the target, and
\* the next tick has set INACTIVE and gone to sleep.
C39_Witness ==
    /\ track_pc = "sleep" /\ ~Truthy(selected_vn_title)
    /\ current_state = "INACTIVE" /\ active_sum > 0 /\ entered_at = NoTime
    /\ ui_ops > 0

\* the refresh thread ends
RefreshThreadEnds == mon.thread = "alive" /\ mon'.thread = "dead"

\* C40: after stop() and a later start() the refresh loop runs again: the
\* thread that start() created ends only when stop() has been called again
\* or the loop has counted its consecutive errors.
C40_MonitorRestarts ==
    [][(RefreshThreadEnds /\ mon.restarted)
           => (mon.stopping \/ poll["refresh"].errors >= max_consecutive_errors)]_vars

\* C40 for the first start of the monitor
C40_MonitorStarts ==
    [][(RefreshThreadEnds /\ ~mon.restarted)
           => (mon.stopping \/ poll["refresh"].errors >= max_consecutive_errors)]_vars

====
